---- MODULE Spec2Model ----
(***************************************************************************)
(* Verification model of qiskit_ibm_runtime:                               *)
(*   - accounts/storage.py      : the JSON credential file (SpecStorage)   *)
(*   - api/client_parameters.py : ClientParameters        (SpecClient)     *)
(*   - options/transpilation_options.py : TranspilationOptions             *)
(*                                                    (SpecTranspilation)  *)
(*   - options/twirling_options.py  : TwirlingOptions    (SpecTwirling)    *)
(*   - options/execution_options.py : ExecutionOptions   (SpecExecution)   *)
(*   - estimator.py                 : Estimator          (SpecEstimator)   *)
(*   - models/job_status.py         : JobStatus          (SpecJobStatus)   *)
(*   - utils/backend_decoder.py     : SpecConfiguration, SpecFilter,       *)
(*                                    SpecDefaults                         *)
(* Python's None is modelled as the empty sequence << >> and a present     *)
(* value v as the one-element sequence <<v>> wherever a value is Optional. *)
(***************************************************************************)
EXTENDS Integers, Sequences, FiniteSets, TLC

VARIABLES
    fileExists,     \* storage: os.path.isfile(filename)
    fileText,       \* storage: the JSON document in the file, a sequence of <<key, value>> members
    prevExists,     \* storage: fileExists before the last call
    prevText,       \* storage: fileText before the last call
    sCall,          \* storage: the last call, its arguments and its outcome
    lastSaved,      \* storage: per name, the config of the last successful save_config(name), if no delete_config(name) followed
    cp,             \* client parameters: the fields of the ClientParameters instance
    cpResolverArg,  \* client parameters: the url_resolver argument __init__ was called with
    cpCall,         \* client parameters: the last method call, its return value and the resolver calls it made
    topts,          \* transpilation options: the fields of the instance, << >> before construction
    tCall,          \* transpilation options: the last construction or assignment and its outcome
    twopts,         \* twirling options: the fields of the instance, << >> before construction
    twCall,         \* twirling options: the last construction or assignment and its outcome
    eopts,          \* execution options: the fields of the instance, << >> before construction
    eCall,          \* execution options: the last construction or assignment and its outcome
    est,            \* estimator: the fields of the Estimator instance, << >> before construction
    estCall,        \* estimator: the last call, its arguments, its result and the requests it made
    js,             \* job status: the attributes of the JobStatus instance, << >> before construction
    jsCall,          \* job status: the last call, its arguments and its result
    rawConfig,      \* backend decoder: the raw configuration dictionary being filtered
    filterCall,     \* backend decoder: the last filter_raw_configuration call and the calls before it
    cfgCall,        \* backend decoder: the last configuration_from_server_data call and its outcome
    dfCall,          \* backend decoder: the last _to_complex or defaults_from_server_data call and its outcome
    ple,            \* noise learner result: the PauliLindbladError constructed last, << >> before
    noiseCall,       \* noise learner result: the last call, its arguments and its outcome
    fig,            \* draw_execution_spans: the traces of the figure drawn last
    drawCall,        \* draw_execution_spans: the arguments of the last call
    neat,           \* Neat: the analyzer, << >> before one is constructed
    assigned,       \* Neat: the noise model given last to the constructor or the setter
    neatCall,        \* Neat: the last call, its outcome and the simulation it started
    propCall,        \* properties_from_server_data: the last call and its outcome
    disk,           \* concurrent storage: the file shared by the callers
    saver,          \* concurrent storage: the two save_config calls in progress
    observed        \* concurrent storage: the outcome of the last read_config

storageVars == <<fileExists, fileText, prevExists, prevText, sCall, lastSaved>>
clientVars == <<cp, cpResolverArg, cpCall>>
transpVars == <<topts, tCall>>
twirlingVars == <<twopts, twCall>>
executionVars == <<eopts, eCall>>
estimatorVars == <<est, estCall>>
jobStatusVars == <<js, jsCall>>
decoderVars == <<rawConfig, filterCall, cfgCall, dfCall>>
noiseVars == <<ple, noiseCall>>
drawVars == <<fig, drawCall>>
neatVars == <<neat, assigned, neatCall>>
propertiesVars == <<propCall>>
concurrentVars == <<disk, saver, observed>>
vars == <<fileExists, fileText, prevExists, prevText, sCall, lastSaved, cp, cpResolverArg, cpCall, topts, tCall,
          twopts, twCall, eopts, eCall, est, estCall,
          js, jsCall,
          rawConfig, filterCall, cfgCall, dfCall,
          ple, noiseCall,
          fig, drawCall,
          neat, assigned, neatCall,
          propCall,
          disk, saver, observed>>

\* What the operations of one component leave alone: the state of all the others.
notStorage == <<clientVars, transpVars, twirlingVars, executionVars, estimatorVars, jobStatusVars, decoderVars, noiseVars, drawVars, neatVars, propertiesVars, concurrentVars>>
notClient == <<storageVars, transpVars, twirlingVars, executionVars, estimatorVars, jobStatusVars, decoderVars, noiseVars, drawVars, neatVars, propertiesVars, concurrentVars>>
notTransp == <<storageVars, clientVars, twirlingVars, executionVars, estimatorVars, jobStatusVars, decoderVars, noiseVars, drawVars, neatVars, propertiesVars, concurrentVars>>
notTwirling == <<storageVars, clientVars, transpVars, executionVars, estimatorVars, jobStatusVars, decoderVars, noiseVars, drawVars, neatVars, propertiesVars, concurrentVars>>
notExecution == <<storageVars, clientVars, transpVars, twirlingVars, estimatorVars, jobStatusVars, decoderVars, noiseVars, drawVars, neatVars, propertiesVars, concurrentVars>>
notEstimator == <<storageVars, clientVars, transpVars, twirlingVars, executionVars, jobStatusVars, decoderVars, noiseVars, drawVars, neatVars, propertiesVars, concurrentVars>>
notJobStatus == <<storageVars, clientVars, transpVars, twirlingVars, executionVars, estimatorVars, decoderVars, noiseVars, drawVars, neatVars, propertiesVars, concurrentVars>>
notDecoder == <<storageVars, clientVars, transpVars, twirlingVars, executionVars, estimatorVars, jobStatusVars, noiseVars, drawVars, neatVars, propertiesVars, concurrentVars>>
notNoise == <<storageVars, clientVars, transpVars, twirlingVars, executionVars, estimatorVars, jobStatusVars, decoderVars, drawVars, neatVars, propertiesVars, concurrentVars>>
notDraw == <<storageVars, clientVars, transpVars, twirlingVars, executionVars, estimatorVars, jobStatusVars, decoderVars, noiseVars, neatVars, propertiesVars, concurrentVars>>
notNeat == <<storageVars, clientVars, transpVars, twirlingVars, executionVars, estimatorVars, jobStatusVars, decoderVars, noiseVars, drawVars, propertiesVars, concurrentVars>>
notProperties == <<storageVars, clientVars, transpVars, twirlingVars, executionVars, estimatorVars, jobStatusVars, decoderVars, noiseVars, drawVars, neatVars, concurrentVars>>
notConcurrent == <<storageVars, clientVars, transpVars, twirlingVars, executionVars, estimatorVars, jobStatusVars, decoderVars, noiseVars, drawVars, neatVars, propertiesVars>>

None == << >>
Some(v) == <<v>>

(***************************************************************************)
(* Bounds                                                                  *)
(***************************************************************************)
NumAccounts == 2    \* account names other than the reserved key
NumTokens == 1      \* distinct non-empty configuration dictionaries

(***************************************************************************)
(* accounts/storage.py                                                     *)
(***************************************************************************)
DEFAULT_CHANNEL_KEY == "default_channel"

AccountNames == <<"acct1", "acct2", "acct3", "acct4">>
TokenNames == <<"t1", "t2", "t3">>
ChannelNames == {"ibm_cloud", "ibm_quantum"}

\* The account names callers pass; the code accepts any string, the reserved key included.
Names == {AccountNames[i] : i \in 1..NumAccounts} \cup {DEFAULT_CHANNEL_KEY}

\* Python values held in memory: a str or a dict of str fields.
PyStr(s) == [t |-> "str", s |-> s, d |-> << >>]
PyDict(f) == [t |-> "dict", s |-> "", d |-> f]

\* The config dictionaries callers pass: the empty dict and dicts with channel/token fields.
Configs == {PyDict(<< >>)} \cup
           {PyDict("channel" :> "ibm_cloud" @@ "token" :> TokenNames[i]) : i \in 1..NumTokens}

\* The default_channel arguments callers pass: None, "" and channel names.
DefaultChannelArgs == {None, Some(PyStr(""))} \cup {Some(PyStr(c)) : c \in ChannelNames}

\* Python truthiness of an Optional value: None, "" and {} are falsy.
Truthy(o) ==
    /\ o # None
    /\ IF o[1].t = "str" THEN o[1].s # "" ELSE DOMAIN o[1].d # {}

\* Lexicographic rank of the strings that occur as JSON object keys.
StrOrder == <<"acct1", "acct2", "acct3", "acct4", "channel", "default_channel", "token">>
Rank(s) == CHOOSE i \in DOMAIN StrOrder : StrOrder[i] = s

RECURSIVE SortedSeq(_)
SortedSeq(S) ==
    IF S = {} THEN << >>
    ELSE LET m == CHOOSE x \in S : \A y \in S : Rank(x) <= Rank(y)
         IN  <<m>> \o SortedSeq(S \ {m})

\* JSON text values: a string, or an object written as a sequence of members.
JStr(s) == [t |-> "str", s |-> s, o |-> << >>]
JObj(m) == [t |-> "obj", s |-> "", o |-> m]

\* json.dump(value, sort_keys=True) of one Python value.
json_dump_value(v) ==
    IF v.t = "str" THEN JStr(v.s)
    ELSE LET ks == SortedSeq(DOMAIN v.d)
         IN  JObj([i \in DOMAIN ks |-> <<ks[i], JStr(v.d[ks[i]])>>])

\* json.dump(data, json_out, sort_keys=True, indent=4): the document's members in key order.
json_dump(data) ==
    LET ks == SortedSeq(DOMAIN data)
    IN  [i \in DOMAIN ks |-> <<ks[i], json_dump_value(data[ks[i]])>>]

\* The keys of a JSON object's members.
MemberKeys(m) == {m[i][1] : i \in DOMAIN m}

\* The value of key k among the members of a JSON object; on a repeated key the last member wins.
MemberValue(m, k) ==
    LET last == CHOOSE i \in DOMAIN m : m[i][1] = k /\ \A j \in DOMAIN m : m[j][1] = k => j <= i
    IN  m[last][2]

\* json.load of one member value: a str, or a dict of str fields.
json_load_value(j) ==
    IF j.t = "str" THEN PyStr(j.s)
    ELSE PyDict([k \in MemberKeys(j.o) |-> MemberValue(j.o, k).s])

\* json.load(json_in)
json_load(text) == [k \in MemberKeys(text) |-> json_load_value(MemberValue(text, k))]

\* dict.get(key): None when the key is absent.
Get(data, k) == IF k \in DOMAIN data THEN Some(data[k]) ELSE None

\* data[k] = v
Put(data, k, v) == [x \in DOMAIN data \cup {k} |-> IF x = k THEN v ELSE data[x]]

\* del data[k]
Del(data, k) == [x \in DOMAIN data \ {k} |-> data[x]]

\* _ensure_file_exists(filename): the text of the file once the call returned.
ensure_file_exists_text == IF fileExists THEN fileText ELSE json_dump(<< >>)

\* The guards of save_config: which AccountAlreadyExistsError it raises, if any.
save_config_error(data, name, overwrite, default_channel) ==
    IF Truthy(Get(data, name)) /\ ~overwrite THEN "named_account_exists"
    ELSE IF Get(data, DEFAULT_CHANNEL_KEY) # default_channel /\ ~overwrite THEN "default_channel_exists"
    ELSE "none"

\* Mutant of save_config_data: the test is "default_channel is not None", so an empty string
\* is written too.
save_config_data_mut(data, name, config, default_channel) ==
    LET d1 == Put(data, name, config)
    IN  IF default_channel # None THEN Put(d1, DEFAULT_CHANNEL_KEY, default_channel[1]) ELSE d1

\* The dictionary save_config dumps when no guard raised.
save_config_data(data, name, config, default_channel) ==
    LET d1 == Put(data, name, config)
    IN  IF Truthy(default_channel) THEN Put(d1, DEFAULT_CHANNEL_KEY, default_channel[1]) ELSE d1

save_config(name, config, overwrite, default_channel) ==
    LET text == ensure_file_exists_text
        data == json_load(text)
        err == save_config_error(data, name, overwrite, default_channel)
    IN  /\ prevExists' = fileExists
        /\ prevText' = fileText
        /\ fileExists' = TRUE
        /\ fileText' = IF err = "none"
                       THEN json_dump(save_config_data(data, name, config, default_channel))
                       ELSE text
        /\ sCall' = [op |-> "save_config", name |-> Some(name), config |-> Some(config),
                     overwrite |-> overwrite, default_channel |-> default_channel,
                     error |-> err, ret |-> None]
        /\ lastSaved' = IF err = "none" THEN [lastSaved EXCEPT ![name] = Some(config)] ELSE lastSaved

\* Mutant of read_config_result: looks the name up with data.get(name) and tests its truth.
read_config_result_mut(data, name) ==
    IF name = None THEN Some(PyDict(data))
    ELSE IF Truthy(Get(data, name[1])) THEN Some(data[name[1]])
    ELSE None

\* The value read_config returns for the loaded data: Some(..) or None.
read_config_result(data, name) ==
    IF name = None THEN Some(PyDict(data))
    ELSE IF name[1] \in DOMAIN data THEN Some(data[name[1]])
    ELSE None

read_config(name) ==
    LET text == ensure_file_exists_text
        data == json_load(text)
    IN  /\ prevExists' = fileExists
        /\ prevText' = fileText
        /\ fileExists' = TRUE
        /\ fileText' = text
        /\ sCall' = [op |-> "read_config", name |-> name, config |-> None,
                     overwrite |-> FALSE, default_channel |-> None,
                     error |-> "none", ret |-> read_config_result(data, name)]
        /\ UNCHANGED lastSaved

\* Mutant of delete_config_found: tests data.get(name) instead of "name in data".
delete_config_found_mut(data, name) == Truthy(Get(data, name))

\* Whether delete_config rewrites the file and returns True.
delete_config_found(data, name) == name \in DOMAIN data

delete_config(name) ==
    LET text == ensure_file_exists_text
        data == json_load(text)
        found == delete_config_found(data, name)
    IN  /\ prevExists' = fileExists
        /\ prevText' = fileText
        /\ fileExists' = TRUE
        /\ fileText' = IF found THEN json_dump(Del(data, name)) ELSE text
        /\ sCall' = [op |-> "delete_config", name |-> Some(name), config |-> None,
                     overwrite |-> FALSE, default_channel |-> None,
                     error |-> "none", ret |-> Some(found)]
        /\ lastSaved' = IF found THEN [lastSaved EXCEPT ![name] = None] ELSE lastSaved

StorageInit ==
    /\ fileExists = FALSE
    /\ fileText = << >>
    /\ prevExists = FALSE
    /\ prevText = << >>
    /\ sCall = [op |-> "none", name |-> None, config |-> None, overwrite |-> FALSE,
                default_channel |-> None, error |-> "none", ret |-> None]
    /\ lastSaved = [n \in Names |-> None]

SaveConfig ==
    /\ \E name \in Names, config \in Configs, overwrite \in BOOLEAN, dc \in DefaultChannelArgs :
           save_config(name, config, overwrite, dc)
    /\ UNCHANGED notStorage

ReadConfig ==
    /\ \E name \in {None} \cup {Some(n) : n \in Names} : read_config(name)
    /\ UNCHANGED notStorage

DeleteConfig ==
    /\ \E name \in Names : delete_config(name)
    /\ UNCHANGED notStorage

(***************************************************************************)
(* api/client_parameters.py                                                *)
(***************************************************************************)
Channels == {"ibm_cloud", "ibm_quantum", "generic", "local"}
Tokens == {"tokA", "tokB"}
Urls == {None, Some("https://auth.example")}
Instances == {None, Some("crn:1")}
Resolvers == {None, Some("custom_resolver")}

\* ClientParameters.__init__: the fields of the new instance.
ClientParameters_init(channel, token, url, instance, private_endpoint, url_resolver) ==
    [channel |-> channel, token |-> token, url |-> url, instance |-> instance,
     private_endpoint |-> private_endpoint,
     url_resolver |-> IF url_resolver = None THEN "default_runtime_url_resolver"
                      ELSE url_resolver[1]]

CloudAuth(api_key, crn) == [cls |-> "CloudAuth", api_key |-> Some(api_key), crn |-> crn, access_token |-> None]
GenericAuth(api_key, crn) == [cls |-> "GenericAuth", api_key |-> Some(api_key), crn |-> crn, access_token |-> None]
QuantumAuth(access_token) == [cls |-> "QuantumAuth", api_key |-> None, crn |-> None, access_token |-> Some(access_token)]

\* Mutant of get_auth_handler: the 'generic' branch is missing.
get_auth_handler_mut(self) ==
    IF self.channel = "ibm_cloud" THEN CloudAuth(self.token, self.instance)
    ELSE QuantumAuth(self.token)

\* ClientParameters.get_auth_handler
get_auth_handler(self) ==
    IF self.channel = "ibm_cloud" THEN CloudAuth(self.token, self.instance)
    ELSE IF self.channel = "generic" THEN GenericAuth(self.token, self.instance)
    ELSE QuantumAuth(self.token)

\* One call resolver(url, instance, private_endpoint); its result is the resolver's business.
ResolverCall(resolver, url, instance, private_endpoint) ==
    [resolver |-> resolver, url |-> url, instance |-> instance, private_endpoint |-> private_endpoint]

\* Mutant of get_runtime_api_base_url_calls: the resolver is called for every channel.
get_runtime_api_base_url_calls_mut(self) ==
    <<ResolverCall(self.url_resolver, self.url, self.instance, self.private_endpoint)>>

\* The resolver calls get_runtime_api_base_url makes.
get_runtime_api_base_url_calls(self) ==
    IF self.channel = "generic" THEN << >>
    ELSE <<ResolverCall(self.url_resolver, self.url, self.instance, self.private_endpoint)>>

\* ClientParameters.get_runtime_api_base_url: the configured url, or the result of the resolver call.
get_runtime_api_base_url(self) ==
    IF self.channel = "generic" THEN [kind |-> "url", url |-> self.url, resolved |-> << >>]
    ELSE [kind |-> "resolved", url |-> None, resolved |-> get_runtime_api_base_url_calls(self)]

NoAuth == [cls |-> "none", api_key |-> None, crn |-> None, access_token |-> None]
NoUrl == [kind |-> "none", url |-> None, resolved |-> << >>]

ClientInit ==
    /\ cp = ClientParameters_init("ibm_quantum", "tokA", None, None, FALSE, None)
    /\ cpResolverArg = None
    /\ cpCall = [op |-> "__init__", auth |-> NoAuth, base_url |-> NoUrl, resolver_calls |-> << >>]

ClientConstruct ==
    /\ \E channel \in Channels, token \in Tokens, url \in Urls, instance \in Instances,
          private_endpoint \in BOOLEAN, url_resolver \in Resolvers :
           /\ cp' = ClientParameters_init(channel, token, url, instance, private_endpoint, url_resolver)
           /\ cpResolverArg' = url_resolver
    /\ cpCall' = [op |-> "__init__", auth |-> NoAuth, base_url |-> NoUrl, resolver_calls |-> << >>]
    /\ UNCHANGED notClient

GetAuthHandler ==
    /\ cpCall' = [op |-> "get_auth_handler", auth |-> get_auth_handler(cp), base_url |-> NoUrl,
                  resolver_calls |-> << >>]
    /\ UNCHANGED <<cp, cpResolverArg, notClient>>

GetRuntimeApiBaseUrl ==
    /\ cpCall' = [op |-> "get_runtime_api_base_url", auth |-> NoAuth,
                  base_url |-> get_runtime_api_base_url(cp),
                  resolver_calls |-> get_runtime_api_base_url_calls(cp)]
    /\ UNCHANGED <<cp, cpResolverArg, notClient>>

(***************************************************************************)
(* options/transpilation_options.py                                        *)
(* Floats are modelled in halves: the integer n stands for n / 2.          *)
(***************************************************************************)
MaxHalves == 3      \* the largest approximation_degree callers try, in halves

ApproxLower == 0    \* 0.0
ApproxUpper == 2    \* 1.0

TranspilationSupportedOptions ==
    {"skip_transpilation", "initial_layout", "layout_method", "routing_method", "approximation_degree"}
LayoutMethodType == {"trivial", "dense", "noise_adaptive", "sabre"}
RoutingMethodType == {"basic", "lookahead", "stochastic", "sabre", "none"}

\* Values callers pass for a field: None, a bool, a str, a number or a list.
TNone == [t |-> "none", b |-> FALSE, s |-> "", n |-> 0]
TBool(b) == [t |-> "bool", b |-> b, s |-> "", n |-> 0]
TStr(s) == [t |-> "str", b |-> FALSE, s |-> s, n |-> 0]
TNum(n) == [t |-> "float", b |-> FALSE, s |-> "", n |-> n]
TList == [t |-> "list", b |-> FALSE, s |-> "", n |-> 0]

\* "dense" is a layout method only, "none" a routing method only, "sabre" is both.
MethodInputs == {TNone, TList} \cup {TStr(m) : m \in {"dense", "none", "sabre", "bogus"}}
ApproxInputs == {TNone, TStr("bogus")} \cup {TNum(n) : n \in -1 .. MaxHalves}

\* The values tried for each keyword; "optimization_level" is not a declared field.
FieldInputs(field) ==
    CASE field = "skip_transpilation" -> {TBool(TRUE), TBool(FALSE), TList}
      [] field = "initial_layout" -> {TNone, TList, TStr("bogus")}
      [] field = "layout_method" -> MethodInputs
      [] field = "routing_method" -> MethodInputs
      [] field = "approximation_degree" -> ApproxInputs
      [] OTHER -> {TNum(1)}

KeywordNames == TranspilationSupportedOptions \cup {"optimization_level"}

\* The declared fields with their defaults (lines 66-70).
TranspilationDefaults ==
    [skip_transpilation |-> TBool(FALSE), initial_layout |-> TNone, layout_method |-> TNone,
     routing_method |-> TNone, approximation_degree |-> TNone]

\* pydantic's validation of one value against the field's annotation.
FieldTypeOk(field, v) ==
    CASE field = "skip_transpilation" -> v.t = "bool"
      [] field = "initial_layout" -> v.t \in {"none", "list"}
      [] field = "layout_method" -> v.t \in {"none", "str"}
      [] field = "routing_method" -> v.t \in {"none", "str"}
      [] field = "approximation_degree" -> v.t \in {"none", "float"}
      [] OTHER -> FALSE

\* approximation_degree is None or 0.0 <= approximation_degree <= 1.0
ApproxDegreeOk(v) == v.t = "none" \/ (ApproxLower <= v.n /\ v.n <= ApproxUpper)

LayoutMethodOk(v) == v.t = "none" \/ v.s \in LayoutMethodType

RoutingMethodOk(v) == v.t = "none" \/ v.s \in RoutingMethodType

\* TranspilationOptions._validate_model: the ValueError it raises on self, "none" when it returns self.
validate_model(self) ==
    IF ~LayoutMethodOk(self.layout_method) THEN "unsupported_layout_method"
    ELSE IF ~RoutingMethodOk(self.routing_method) THEN "unsupported_routing_method"
    ELSE IF ~ApproxDegreeOk(self.approximation_degree) THEN "approximation_degree_range"
    ELSE "none"

\* self.__dict__ with one field replaced
WithField(self, field, v) == [f \in DOMAIN self |-> IF f = field THEN v ELSE self[f]]

\* The fields __init__ builds from the keywords, before _validate_model runs.
InitFields(kwargs) ==
    [f \in DOMAIN TranspilationDefaults |->
        IF f \in DOMAIN kwargs THEN kwargs[f] ELSE TranspilationDefaults[f]]

\* The error of TranspilationOptions(**kwargs): extra="forbid", then the annotations, then the
\* mode="after" validator on the new instance.
InitError(kwargs) ==
    IF \E f \in DOMAIN kwargs : f \notin TranspilationSupportedOptions THEN "unexpected_keyword"
    ELSE IF \E f \in DOMAIN kwargs : ~FieldTypeOk(f, kwargs[f]) THEN "type_error"
    ELSE validate_model(InitFields(kwargs))

\* The error of "self.field = v" under validate_assignment=True.
SetattrError(self, field, v) ==
    IF field \notin TranspilationSupportedOptions THEN "no_such_attribute"
    ELSE IF ~FieldTypeOk(field, v) THEN "type_error"
    ELSE validate_model(WithField(self, field, v))

\* The instance's fields after "self.field = v". The annotation is checked on a copy of
\* __dict__; once it passes, the new __dict__ is installed on the instance and only then the
\* mode="after" validator runs on self (it reads self.layout_method, ...), so its ValueError
\* leaves the assigned value in place.
SetattrFields(self, field, v) ==
    IF field \in TranspilationSupportedOptions /\ FieldTypeOk(field, v)
    THEN WithField(self, field, v)
    ELSE self

TranspInit ==
    /\ topts = None
    /\ tCall = [op |-> "none", kwargs |-> << >>, error |-> "none"]

\* The keyword dictionaries tried at construction: at most MaxKwargs keywords.
MaxKwargs == 1

KwargSets ==
    UNION {[S -> UNION {FieldInputs(f) : f \in S}] : S \in {T \in SUBSET KeywordNames : Cardinality(T) <= MaxKwargs}}

Kwargs == {k \in KwargSets : \A f \in DOMAIN k : k[f] \in FieldInputs(f)}

\* opts = TranspilationOptions(**kwargs): the name is bound only when __init__ returns.
TranspConstruct ==
    /\ \E kwargs \in Kwargs :
        LET err == InitError(kwargs)
        IN  /\ topts' = IF err = "none" THEN Some(InitFields(kwargs)) ELSE topts
            /\ tCall' = [op |-> "__init__", kwargs |-> kwargs, error |-> err]
    /\ UNCHANGED notTransp

\* opts.field = v
TranspSetattr ==
    /\ topts # None
    /\ \E field \in KeywordNames : \E v \in FieldInputs(field) :
        /\ topts' = Some(SetattrFields(topts[1], field, v))
        /\ tCall' = [op |-> "__setattr__", kwargs |-> (field :> v),
                     error |-> SetattrError(topts[1], field, v)]
    /\ UNCHANGED notTransp

(***************************************************************************)
(* options/twirling_options.py                                             *)
(* primitive_dataclass and make_constraint_validator live in               *)
(* options/utils.py; the fields, their annotations and the constraint      *)
(* ge=1 on two of them are declared here (lines 69-75).                    *)
(***************************************************************************)
MaxCount == 2       \* the largest integer callers try for a count

TUnset == [t |-> "unset", b |-> FALSE, s |-> "", n |-> 0]
TInt(n) == [t |-> "int", b |-> FALSE, s |-> "", n |-> n]

TwirlingStrategyType == {"active", "active-accum", "active-circuit", "all"}

TwirlingFields ==
    {"enable_gates", "enable_measure", "num_randomizations", "shots_per_randomization", "strategy"}

\* The declared fields with their defaults (lines 69-73).
TwirlingDefaults ==
    [enable_gates |-> TUnset, enable_measure |-> TUnset, num_randomizations |-> TUnset,
     shots_per_randomization |-> TUnset, strategy |-> TUnset]

\* The integers callers try for a count: negative, zero and positive.
CountInputs == {TInt(n) : n \in -1 .. MaxCount}

\* The values tried for each keyword; "optimization_level" is not a declared field.
TwirlingInputs(field) ==
    CASE field \in {"enable_gates", "enable_measure"} -> {TUnset, TBool(TRUE), TList}
      [] field \in {"num_randomizations", "shots_per_randomization"} ->
            {TUnset, TStr("auto"), TStr("bogus")} \cup CountInputs
      [] field = "strategy" -> {TUnset, TStr("active"), TStr("bogus")}
      [] OTHER -> {TInt(1)}

TwirlingKeywords == TwirlingFields \cup {"optimization_level"}

\* The annotation of each field (lines 69-73).
TwirlingTypeOk(field, v) ==
    CASE field \in {"enable_gates", "enable_measure"} -> v.t \in {"unset", "bool"}
      [] field \in {"num_randomizations", "shots_per_randomization"} ->
            v.t \in {"unset", "int"} \/ v = TStr("auto")
      [] field = "strategy" -> v.t = "unset" \/ (v.t = "str" /\ v.s \in TwirlingStrategyType)
      [] OTHER -> FALSE

\* Mutant of Ge1Fields: the constraint is attached to num_randomizations only.
Ge1Fields_mut == {"num_randomizations"}

\* _ge1 = make_constraint_validator("num_randomizations", "shots_per_randomization", ge=1)
Ge1Fields == {"num_randomizations", "shots_per_randomization"}
Ge1Limit == 1

\* The validator make_constraint_validator builds: an integer value of a named field must be
\* >= the limit; Unset and "auto" are left alone.
constraint_validator_ok(field, v) ==
    (field \in Ge1Fields /\ v.t = "int") => v.n >= Ge1Limit

\* The error of validating one field value: the annotation, then the field's constraint.
TwirlingFieldError(field, v) ==
    IF field \notin TwirlingFields THEN "unexpected_keyword"
    ELSE IF ~TwirlingTypeOk(field, v) THEN "type_error"
    ELSE IF ~constraint_validator_ok(field, v) THEN "constraint_ge"
    ELSE "none"

\* primitive_dataclass: a pydantic dataclass that validates the keywords of __init__ ...
TwirlingInitError(kwargs) ==
    IF \E f \in DOMAIN kwargs : TwirlingFieldError(f, kwargs[f]) # "none"
    THEN TwirlingFieldError(CHOOSE f \in DOMAIN kwargs : TwirlingFieldError(f, kwargs[f]) # "none",
                            kwargs[CHOOSE f \in DOMAIN kwargs : TwirlingFieldError(f, kwargs[f]) # "none"])
    ELSE "none"

TwirlingInitFields(kwargs) ==
    [f \in DOMAIN TwirlingDefaults |-> IF f \in DOMAIN kwargs THEN kwargs[f] ELSE TwirlingDefaults[f]]

\* ... and every assignment: a field validator runs before the value is written.
TwirlingSetattrFields(self, field, v) ==
    IF TwirlingFieldError(field, v) = "none" THEN WithField(self, field, v) ELSE self

TwirlingInit ==
    /\ twopts = None
    /\ twCall = [op |-> "none", kwargs |-> << >>, error |-> "none"]

TwirlingKwargs ==
    {<< >>} \cup UNION {{f :> v : v \in TwirlingInputs(f)} : f \in TwirlingKeywords}

\* opts = TwirlingOptions(**kwargs)
TwirlingConstruct ==
    /\ \E kwargs \in TwirlingKwargs :
        LET err == TwirlingInitError(kwargs)
        IN  /\ twopts' = IF err = "none" THEN Some(TwirlingInitFields(kwargs)) ELSE twopts
            /\ twCall' = [op |-> "__init__", kwargs |-> kwargs, error |-> err]
    /\ UNCHANGED notTwirling

\* opts.field = v
TwirlingSetattr ==
    /\ twopts # None
    /\ \E field \in TwirlingKeywords : \E v \in TwirlingInputs(field) :
        /\ twopts' = Some(TwirlingSetattrFields(twopts[1], field, v))
        /\ twCall' = [op |-> "__setattr__", kwargs |-> (field :> v),
                      error |-> TwirlingFieldError(field, v)]
    /\ UNCHANGED notTwirling

(***************************************************************************)
(* options/execution_options.py                                            *)
(***************************************************************************)
ExecutionSupportedOptions == {"shots", "init_qubits"}

DefaultShots == 4000

\* The declared fields with their defaults (lines 40-41).
ExecutionDefaults == [shots |-> TInt(DefaultShots), init_qubits |-> TBool(TRUE)]

\* The values tried for each keyword; "optimization_level" is not a declared field.
ExecutionInputs(field) ==
    CASE field = "shots" -> {TStr("bogus"), TList, TInt(DefaultShots)} \cup CountInputs
      [] field = "init_qubits" -> {TBool(TRUE), TBool(FALSE), TList}
      [] OTHER -> {TInt(1)}

ExecutionKeywords == ExecutionSupportedOptions \cup {"optimization_level"}

\* Mutant of ExecutionTypeOk: shots is not validated at all.
ExecutionTypeOk_mut(field, v) ==
    CASE field = "shots" -> TRUE
      [] field = "init_qubits" -> v.t = "bool"
      [] OTHER -> FALSE

\* The annotation of each field: "shots: int", "init_qubits: bool". No validator and no
\* Field constraint is declared in the class.
ExecutionTypeOk(field, v) ==
    CASE field = "shots" -> v.t = "int"
      [] field = "init_qubits" -> v.t = "bool"
      [] OTHER -> FALSE

\* The error of validating one keyword or assignment (extra="forbid", then the annotation).
ExecutionFieldError(field, v) ==
    IF field \notin ExecutionSupportedOptions THEN "unexpected_keyword"
    ELSE IF ~ExecutionTypeOk(field, v) THEN "type_error"
    ELSE "none"

ExecutionInitError(kwargs) ==
    IF \E f \in DOMAIN kwargs : ExecutionFieldError(f, kwargs[f]) # "none"
    THEN ExecutionFieldError(CHOOSE f \in DOMAIN kwargs : ExecutionFieldError(f, kwargs[f]) # "none",
                             kwargs[CHOOSE f \in DOMAIN kwargs : ExecutionFieldError(f, kwargs[f]) # "none"])
    ELSE "none"

ExecutionInitFields(kwargs) ==
    [f \in DOMAIN ExecutionDefaults |-> IF f \in DOMAIN kwargs THEN kwargs[f] ELSE ExecutionDefaults[f]]

\* validate_assignment=True: the value is written only when its validation passes.
ExecutionSetattrFields(self, field, v) ==
    IF ExecutionFieldError(field, v) = "none" THEN WithField(self, field, v) ELSE self

ExecutionInit ==
    /\ eopts = None
    /\ eCall = [op |-> "none", kwargs |-> << >>, error |-> "none"]

ExecutionKwargs ==
    {<< >>} \cup UNION {{f :> v : v \in ExecutionInputs(f)} : f \in ExecutionKeywords}

\* opts = ExecutionOptions(**kwargs)
ExecutionConstruct ==
    /\ \E kwargs \in ExecutionKwargs :
        LET err == ExecutionInitError(kwargs)
        IN  /\ eopts' = IF err = "none" THEN Some(ExecutionInitFields(kwargs)) ELSE eopts
            /\ eCall' = [op |-> "__init__", kwargs |-> kwargs, error |-> err]
    /\ UNCHANGED notExecution

\* opts.field = v
ExecutionSetattr ==
    /\ eopts # None
    /\ \E field \in ExecutionKeywords : \E v \in ExecutionInputs(field) :
        /\ eopts' = Some(ExecutionSetattrFields(eopts[1], field, v))
        /\ eCall' = [op |-> "__setattr__", kwargs |-> (field :> v),
                     error |-> ExecutionFieldError(field, v)]
    /\ UNCHANGED notExecution

(***************************************************************************)
(* estimator.py                                                            *)
(* A Python object is the record [t, v, n]: t = "seq" for a Sequence with  *)
(* the items v, t = "num" for the number n, t = "obj" for any other object *)
(* (a circuit, an observable, a Parameter) with the identity n.            *)
(***************************************************************************)
MaxParams == 2      \* the longest flat sequence of parameter values callers pass

PSeq(items) == [t |-> "seq", v |-> items, n |-> 0]
PNumber(n) == [t |-> "num", v |-> << >>, n |-> n]
PObject(n) == [t |-> "obj", v |-> << >>, n |-> n]

\* isinstance(x, Sequence)
IsSequence(x) == x.t = "seq"

\* [x]
ListOf(x) == PSeq(<<x>>)

\* A flat sequence of n numbers, a flat sequence of n objects.
FlatNumbers(n) == PSeq([i \in 1..n |-> PNumber(i)])
FlatObjects(n) == PSeq([i \in 1..n |-> PObject(i)])

\* circuits / observables as callers pass them: one object, or a list of one or two.
CircuitInputs == {PObject(1), FlatObjects(1), FlatObjects(2)}
ObservableInputs == {PObject(1), FlatObjects(1), FlatObjects(2)}

\* parameter_values as callers pass them: None, a flat sequence of 0..MaxParams numbers, or a
\* sequence of one or two such sequences.
ParameterValueInputs ==
    {None} \cup {Some(FlatNumbers(n)) : n \in 0..MaxParams}
           \cup {Some(PSeq(<<FlatNumbers(n)>>)) : n \in 1..MaxParams}
           \cup {Some(PSeq(<<FlatNumbers(1), FlatNumbers(1)>>))}

\* parameters as callers pass them: None, a flat sequence of Parameter objects, or a nested one.
ParameterInputs ==
    {None, Some(FlatObjects(2)), Some(PSeq(<<FlatObjects(1)>>))}

\* Lines 213-218 and 219-224: a sequence longer than one whose first item is not a Sequence
\* is wrapped in a list.
wrap_flat(x) ==
    IF x # None /\ Len(x[1].v) > 1 /\ ~IsSequence(x[1].v[1]) THEN Some(ListOf(x[1])) ELSE x

\* Mutant of run_arguments: the length test for parameter_values is "> 0", so every non-empty
\* flat sequence is wrapped.
run_arguments_mut(circuits, observables, parameter_values, parameters) ==
    [circuits |-> IF ~IsSequence(circuits) THEN ListOf(circuits) ELSE circuits,
     observables |-> IF ~IsSequence(observables) THEN ListOf(observables) ELSE observables,
     parameter_values |->
        IF parameter_values # None /\ Len(parameter_values[1].v) > 0
           /\ ~IsSequence(parameter_values[1].v[1])
        THEN Some(ListOf(parameter_values[1])) ELSE parameter_values,
     parameters |-> wrap_flat(parameters)]

\* Estimator.run: the keyword arguments super().run(...) is called with.
run_arguments(circuits, observables, parameter_values, parameters) ==
    [circuits |-> IF ~IsSequence(circuits) THEN ListOf(circuits) ELSE circuits,
     observables |-> IF ~IsSequence(observables) THEN ListOf(observables) ELSE observables,
     parameter_values |-> wrap_flat(parameter_values),
     parameters |-> wrap_flat(parameters)]

PROGRAM_ID == "estimator"

\* list(range(len(x)))
RangeLen(x) == [i \in 1..Len(x.v) |-> i - 1]

\* Options._get_program_inputs(combined): the option settings sent with the program inputs.
get_program_inputs(options) ==
    [k \in {"transpilation_settings"} |-> [skip_transpilation |-> options.skip_transpilation]]

\* dict.update: the keys of the second dictionary win.
DictUpdate(d1, d2) == [k \in DOMAIN d1 \cup DOMAIN d2 |-> IF k \in DOMAIN d2 THEN d2[k] ELSE d1[k]]

\* Mutant of run_inputs: the indices are built with range(1, len + 1).
run_inputs_mut(circuits, observables, parameter_values, parameters) ==
    [k \in {"circuits", "circuit_indices", "observables", "observable_indices", "parameters",
            "parameter_values"} |->
        CASE k = "circuits" -> circuits
          [] k = "circuit_indices" -> [i \in 1..Len(circuits.v) |-> i]
          [] k = "observables" -> observables
          [] k = "observable_indices" -> [i \in 1..Len(observables.v) |-> i]
          [] k = "parameters" -> parameters
          [] OTHER -> parameter_values]

\* Lines 262-269: the inputs dictionary of _run.
run_inputs(circuits, observables, parameter_values, parameters) ==
    [k \in {"circuits", "circuit_indices", "observables", "observable_indices", "parameters",
            "parameter_values"} |->
        CASE k = "circuits" -> circuits
          [] k = "circuit_indices" -> RangeLen(circuits)
          [] k = "observables" -> observables
          [] k = "observable_indices" -> RangeLen(observables)
          [] k = "parameters" -> parameters
          [] OTHER -> parameter_values]

\* The request self._session.run(...) receives from _run (lines 274-279).
run_request(self, circuits, observables, parameter_values, parameters) ==
    [session |-> self.session,
     program_id |-> PROGRAM_ID,
     inputs |-> DictUpdate(run_inputs(circuits, observables, parameter_values, parameters),
                           get_program_inputs(self.options)),
     result_decoder |-> "EstimatorResultDecoder"]

\* The constructor's session argument: None, a Session, an IBMBackend or a backend name.
SessionArgs ==
    {[kind |-> "None", id |-> ""], [kind |-> "Session", id |-> "session1"],
     [kind |-> "IBMBackend", id |-> "backend1"], [kind |-> "str", id |-> "ibmq_qasm_simulator"]}

NoBackend == [kind |-> "None", id |-> ""]

\* Python truth of a session argument or backend: None and "" are falsy.
IsTruthy(x) == x.kind # "None" /\ ~(x.kind = "str" /\ x.id = "")

\* The option dictionaries callers pass: any of the keys 'backend' (deprecated),
\* 'transpilation' (with or without 'skip_transpilation') and 'optimization_level'.
TranspilationDicts == {<< >>} \cup {("skip_transpilation" :> b) : b \in BOOLEAN}

OptionDicts ==
    {DictUpdate(b, t) :
        b \in {<< >>, ("backend" :> [kind |-> "str", id |-> "ibm_legacy"])},
        t \in {<< >>} \cup {("transpilation" :> d) : d \in TranspilationDicts}}
        \cup {("optimization_level" :> 1)}

\* The constructor's options argument: None, an Options instance or a dictionary.
OptionArgs ==
    {[kind |-> "None", skip_transpilation |-> FALSE, d |-> << >>]}
        \cup {[kind |-> "Options", skip_transpilation |-> b, d |-> << >>] : b \in BOOLEAN}
        \cup {[kind |-> "dict", skip_transpilation |-> FALSE, d |-> d] : d \in OptionDicts}

\* options.pop("backend", None): the value popped ...
PopBackend(d) == IF "backend" \in DOMAIN d THEN d["backend"] ELSE NoBackend

\* ... and the dictionary left behind.
AfterPop(d) == [k \in DOMAIN d \ {"backend"} |-> d[k]]

\* options.get("transpilation", {}).get("skip_transpilation", False)
DictSkipTranspilation(d) ==
    IF "transpilation" \in DOMAIN d /\ "skip_transpilation" \in DOMAIN d["transpilation"]
    THEN d["transpilation"]["skip_transpilation"]
    ELSE FALSE

\* Lines 149-166: the value written to self.options.transpilation.skip_transpilation.
init_skip_transpilation(options, skip_transpilation) ==
    CASE options.kind = "None" -> skip_transpilation
      [] options.kind = "Options" -> options.skip_transpilation
      [] OTHER -> DictSkipTranspilation(options.d)

\* Lines 146, 155: the backend taken from the options.
init_options_backend(options) ==
    IF options.kind = "dict" THEN PopBackend(options.d) ELSE NoBackend

\* Lines 152, 155: the caller's options object once the constructor returned. An Options
\* instance is deep-copied; a dictionary is the caller's own object and loses 'backend'.
init_caller_options(options) ==
    IF options.kind = "dict" THEN [options EXCEPT !.d = AfterPop(options.d)] ELSE options

\* Mutant of init_default_session_requests: options['backend'] is preferred to the session
\* argument.
init_default_session_requests_mut(service, session, options) ==
    IF session.kind = "Session" THEN << >>
    ELSE <<[service |-> service,
            backend |-> IF IsTruthy(init_options_backend(options))
                        THEN init_options_backend(options) ELSE session]>>

\* Lines 174-178: the calls get_default_session(service, backend) the constructor makes.
init_default_session_requests(service, session, options) ==
    IF session.kind = "Session" THEN << >>
    ELSE <<[service |-> service,
            backend |-> IF IsTruthy(session) THEN session ELSE init_options_backend(options)]>>

\* Lines 174-178: self._session.
init_session(service, session, options) ==
    IF session.kind = "Session"
    THEN [kind |-> "Session", id |-> session.id, requested |-> << >>]
    ELSE [kind |-> "default", id |-> "",
          requested |-> init_default_session_requests(service, session, options)]

NoEstimatorCall ==
    [op |-> "none", args |-> << >>, ret |-> << >>, requests |-> << >>,
     default_session_requests |-> << >>, caller_options |-> << >>]

EstimatorInit ==
    /\ est = None
    /\ estCall = NoEstimatorCall

\* estimator = Estimator(service=..., session=..., options=..., skip_transpilation=...)
EstimatorConstruct ==
    /\ \E service \in {"None", "service1"}, session \in SessionArgs, options \in OptionArgs,
          skip_transpilation \in BOOLEAN :
        /\ est' = Some([options |-> [skip_transpilation |->
                                        init_skip_transpilation(options, skip_transpilation)],
                        session |-> init_session(service, session, options)])
        /\ estCall' = [NoEstimatorCall EXCEPT
                          !.op = "__init__",
                          !.args = [service |-> service, session |-> session, options |-> options,
                                    skip_transpilation |-> skip_transpilation],
                          !.default_session_requests =
                              init_default_session_requests(service, session, options),
                          !.caller_options = Some(init_caller_options(options))]
    /\ UNCHANGED notEstimator

\* estimator.run(circuits, observables, parameter_values, parameters), up to the call of
\* super().run
EstimatorRun ==
    /\ est # None
    /\ \E circuits \in CircuitInputs, observables \in ObservableInputs,
          parameter_values \in ParameterValueInputs, parameters \in ParameterInputs :
        estCall' = [NoEstimatorCall EXCEPT
                       !.op = "run",
                       !.args = [circuits |-> circuits, observables |-> observables,
                                 parameter_values |-> parameter_values, parameters |-> parameters],
                       !.ret = Some(run_arguments(circuits, observables, parameter_values, parameters))]
    /\ UNCHANGED <<est, notEstimator>>

\* The handles a session's run returns.
JobHandles == {"job1", "job2"}

\* Lines 274-279: _run returns what self._session.run returned.
run_return(job) == [job |-> job, waited_for_result |-> FALSE]

\* estimator._run(circuits, observables, parameter_values, parameters)
Estimator_run ==
    /\ est # None
    /\ \E circuits \in {c \in CircuitInputs : IsSequence(c)},
          observables \in {o \in ObservableInputs : IsSequence(o)},
          parameter_values \in {pv \in ParameterValueInputs : pv # None},
          parameters \in {pa \in ParameterInputs : pa # None},
          job \in JobHandles :
        estCall' = [NoEstimatorCall EXCEPT
                       !.op = "_run",
                       !.args = [circuits |-> circuits, observables |-> observables,
                                 parameter_values |-> parameter_values, parameters |-> parameters],
                       !.requests = <<[request |-> run_request(est[1], circuits, observables,
                                                               parameter_values[1], parameters[1]),
                                       returned |-> job]>>,
                       !.ret = Some(run_return(job))]
    /\ UNCHANGED <<est, notEstimator>>

(***************************************************************************)
(* models/job_status.py                                                    *)
(* A JobStatus object is the record of its instance attributes job_id,     *)
(* status, status_msg and _data; dictionaries are functions from keys to   *)
(* strings.                                                                *)
(***************************************************************************)
JobIds == {"job1", "job2"}
Statuses == {"Queued", "Running"}
StatusMsgs == {"", "job is running"}

\* The keys to_dict always writes (lines 57-61).
CoreKeys == {"job_id", "status", "status_msg"}

\* Names and values of the extra keyword fields callers pass; 'to_dict' is an extra field
\* named like a method of the class.
ExtraNames == {"reason", "to_dict"}
ExtraValues == {"none", "timeout"}
ExtraKwargs == UNION {[ks -> ExtraValues] : ks \in SUBSET ExtraNames}

\* Names looked up on an object.
AttributeNames == CoreKeys \cup ExtraNames \cup {"_data", "from_dict", "undefined"}

\* Lines 30-35: JobStatus(job_id, status, status_msg, **kwargs)
JobStatus_init(job_id, status, status_msg, kwargs) ==
    [job_id |-> job_id, status |-> status, status_msg |-> status_msg,
     _data |-> DictUpdate(<< >>, kwargs)]

\* Mutant of to_dict: the extra fields are not copied into the dictionary.
to_dict_mut(self) ==
    [k \in CoreKeys |->
        CASE k = "job_id" -> self.job_id
          [] k = "status" -> self.status
          [] OTHER -> self.status_msg]

\* Lines 57-63: the core keys, updated with self._data.
to_dict(self) ==
    DictUpdate([k \in CoreKeys |->
                   CASE k = "job_id" -> self.job_id
                     [] k = "status" -> self.status
                     [] OTHER -> self.status_msg],
               self._data)

\* Line 49: cls(**data); the three core keys bind the named parameters, the rest is kwargs.
from_dict(data) ==
    JobStatus_init(data["job_id"], data["status"], data["status_msg"],
                   [k \in DOMAIN data \ CoreKeys |-> data[k]])

\* The names normal attribute lookup finds on a JobStatus object: its instance attributes
\* (lines 31-34) and the attributes of the class (lines 28-65).
InstanceAttrs == {"_data", "job_id", "status", "status_msg"}
ClassAttrs == {"_data", "__init__", "from_dict", "to_dict", "__getattr__"}

\* What evaluating an attribute gives: a string, a dictionary, a method or an AttributeError.
AttrStr(s) == [kind |-> "str", s |-> s, d |-> << >>]
AttrDict(d) == [kind |-> "dict", s |-> "", d |-> d]
AttrMethod(name) == [kind |-> "method", s |-> name, d |-> << >>]
AttrError == [kind |-> "AttributeError", s |-> "", d |-> << >>]

\* Lines 65-69: __getattr__ reads self._data[name]; a KeyError becomes an AttributeError.
JobStatus_getattr(self, name) ==
    IF name \in DOMAIN self._data THEN AttrStr(self._data[name]) ELSE AttrError

\* obj.name: Python calls __getattr__ only when the normal lookup does not find the name.
getattr(self, name) ==
    CASE name \in CoreKeys -> AttrStr(self[name])
      [] name = "_data" -> AttrDict(self._data)
      [] name \in ClassAttrs \ InstanceAttrs -> AttrMethod(name)
      [] OTHER -> JobStatus_getattr(self, name)

NoJobStatusCall == [op |-> "none", args |-> << >>, ret |-> << >>]

JobStatusInit ==
    /\ js = None
    /\ jsCall = NoJobStatusCall

\* s = JobStatus(job_id, status, status_msg, **kwargs), followed by s.to_dict()
JobStatusConstruct ==
    /\ \E job_id \in JobIds, status \in Statuses, status_msg \in StatusMsgs, kwargs \in ExtraKwargs :
        /\ js' = Some(JobStatus_init(job_id, status, status_msg, kwargs))
        /\ jsCall' = [op |-> "__init__",
                      args |-> [job_id |-> job_id, status |-> status, status_msg |-> status_msg,
                                kwargs |-> kwargs],
                      ret |-> Some(to_dict(JobStatus_init(job_id, status, status_msg, kwargs)))]
    /\ UNCHANGED notJobStatus

\* s = JobStatus.from_dict(s.to_dict()), followed by s.to_dict()
JobStatusFromDict ==
    /\ js # None
    /\ js' = Some(from_dict(to_dict(js[1])))
    /\ jsCall' = [op |-> "from_dict",
                  args |-> [data |-> to_dict(js[1])],
                  ret |-> Some(to_dict(from_dict(to_dict(js[1]))))]
    /\ UNCHANGED notJobStatus

\* s.<name>
JobStatusGetattr ==
    /\ js # None
    /\ \E name \in AttributeNames :
        jsCall' = [op |-> "getattr", args |-> [name |-> name], ret |-> Some(getattr(js[1], name))]
    /\ UNCHANGED <<js, notJobStatus>>

(***************************************************************************)
(* utils/backend_decoder.py                                                *)
(* A JSON value that stands for a number is the record [t, v]: t = "list"  *)
(* or "tuple" with the items v, t = "complex" with v = <<re, im>>,         *)
(* t = "real" with v = <<x>>. The outcome of a call that may raise is the  *)
(* record [raised, ret]: raised = "none" and ret = <<value>>, or raised =  *)
(* the exception's class and ret = << >>.                                  *)
(***************************************************************************)
MaxListLen == 3     \* the longest list handed to _to_complex
MaxSamples == 2     \* the most samples of a pulse library item

PyList(v) == [t |-> "list", v |-> v]
PyTuple(v) == [t |-> "tuple", v |-> v]
PyComplex(re, im) == [t |-> "complex", v |-> <<re, im>>]
PyReal(x) == [t |-> "real", v |-> <<x>>]

Returned(v) == [raised |-> "none", ret |-> <<v>>]
Raised(e) == [raised |-> e, ret |-> << >>]

\* The real numbers server data holds.
Numbers == {0, 1}

\* Sequences over S of length 0..n.
SeqsUpTo(S, n) == UNION {[1..k -> S] : k \in 0..n}

\* The values _to_complex is called with: lists of 0..MaxListLen numbers, pairs given as
\* tuples, complex numbers and plain real numbers.
ComplexInputs ==
    {PyList(v) : v \in SeqsUpTo(Numbers, MaxListLen)}
        \cup {PyTuple(v) : v \in [1..2 -> Numbers]}
        \cup {PyComplex(re, im) : re \in Numbers, im \in Numbers}
        \cup {PyReal(x) : x \in Numbers}

\* Mutant of _to_complex: the length of the list is not tested, the first two items are used.
to_complex_mut(value) ==
    IF value.t = "list" /\ Len(value.v) >= 2 THEN Returned(PyComplex(value.v[1], value.v[2]))
    ELSE IF value.t = "complex" THEN Returned(value)
    ELSE Raised("TypeError")

\* Lines 188-194: _to_complex(value)
to_complex(value) ==
    IF value.t = "list" /\ Len(value.v) = 2 THEN Returned(PyComplex(value.v[1], value.v[2]))
    ELSE IF value.t = "complex" THEN Returned(value)
    ELSE Raised("TypeError")

\* The outcome of a step that changes an object in place: the exception raised, if any, and
\* the object as the step leaves it.
Step(raised, obj) == [raised |-> raised, obj |-> obj]

\* The index of the first step of a sequence of outcomes that raised, 0 when none did.
FirstRaise(steps) ==
    IF \E i \in DOMAIN steps : steps[i].raised # "none"
    THEN CHOOSE i \in DOMAIN steps :
             steps[i].raised # "none" /\ \A j \in 1..(i - 1) : steps[j].raised = "none"
    ELSE 0

\* for x in original: <step on x>, where steps[i] is the outcome of the step on original[i]:
\* the loop stops at the first step that raises and leaves the later items untouched.
Loop(original, steps) ==
    Step(IF FirstRaise(steps) = 0 THEN "none" ELSE steps[FirstRaise(steps)].raised,
         [i \in DOMAIN original |->
             IF FirstRaise(steps) = 0 \/ i <= FirstRaise(steps) THEN steps[i].obj ELSE original[i]])

\* Lines 169-170: u_channel_lo["scale"] = _to_complex(u_channel_lo["scale"]) on the entry
\* [scale |-> None] (no 'scale' key) or [scale |-> Some(value)].
decode_u_channel_lo(u_channel_lo) ==
    IF u_channel_lo.scale = None THEN Step("KeyError", u_channel_lo)
    ELSE IF to_complex(u_channel_lo.scale[1]).raised # "none"
         THEN Step(to_complex(u_channel_lo.scale[1]).raised, u_channel_lo)
         ELSE Step("none", [scale |-> to_complex(u_channel_lo.scale[1]).ret])

\* Lines 168-170: the two loops over config["u_channel_lo"].
decode_u_channel_list(u_channel_list) ==
    Loop(u_channel_list, [i \in DOMAIN u_channel_list |-> decode_u_channel_lo(u_channel_list[i])])

decode_u_channel_lists(lists) ==
    Loop(lists, [i \in DOMAIN lists |-> decode_u_channel_list(lists[i])])

\* dateutil.parser.isoparse on the string s: a datetime for an ISO-8601 string, ValueError
\* otherwise, TypeError for an argument that is no string. A date is the record [t, s] with t = "str" before and "datetime" after decoding.
IsoDate == "2021-03-01T00:00:00Z"
NotIsoDate == "last monday"
isoparse(date) ==
    IF date.t # "str" THEN Raised("TypeError")
    ELSE IF date.s = IsoDate THEN Returned([t |-> "datetime", s |-> date.s])
    ELSE Raised("ValueError")

\* Lines 158-170: decode_backend_configuration(config), config a dictionary.
decode_backend_configuration(config) ==
    IF "online_date" \notin DOMAIN config THEN Step("KeyError", config)
    ELSE IF isoparse(config["online_date"]).raised # "none"
    THEN Step(isoparse(config["online_date"]).raised, config)
    ELSE IF "u_channel_lo" \notin DOMAIN config
    THEN Step("none", [config EXCEPT !["online_date"] = isoparse(config["online_date"]).ret[1]])
    ELSE Step(decode_u_channel_lists(config["u_channel_lo"]).raised,
              [config EXCEPT !["online_date"] = isoparse(config["online_date"]).ret[1],
                             !["u_channel_lo"] = decode_u_channel_lists(config["u_channel_lo"]).obj])

FRACTIONAL_GATES == {"rzz", "rx"}
DYNAMIC_INSTRUCTIONS == {"if_else", "while_loop", "for_loop", "switch_case"}

\* use_fractional_gates: None, True or False.
FractionalFlags == {None, Some(TRUE), Some(FALSE)}

\* A gate of the 'gates' list is the record [is_dict, name]: name = None for a dictionary
\* without 'name'; is_dict = FALSE for an entry that is not a dictionary.
Gate(name) == [is_dict |-> TRUE, name |-> Some(name)]
UnnamedGate == [is_dict |-> TRUE, name |-> None]
NotAGate == [is_dict |-> FALSE, name |-> None]

\* [x for x in seq if x not in removed]
Without(seq, removed) == SelectSeq(seq, LAMBDA x : x \notin removed)

\* [g for g in gates if g.get("name") not in FRACTIONAL_GATES]
GatesWithout(gates, removed) ==
    SelectSeq(gates, LAMBDA g : ~(g.name # None /\ g.name[1] \in removed))

\* raw_config with raw_config[key] replaced by value when key is in raw_config.
IfPresent(raw_config, key, value) ==
    IF key \in DOMAIN raw_config THEN [raw_config EXCEPT ![key] = value] ELSE raw_config

\* Mutant of filter_fractional: supported_instructions is left as it is.
filter_fractional_mut(raw_config) ==
    [k \in DOMAIN raw_config |->
        CASE k = "basis_gates" -> Without(raw_config[k], FRACTIONAL_GATES)
          [] k = "gates" -> GatesWithout(raw_config[k], FRACTIONAL_GATES)
          [] OTHER -> raw_config[k]]

\* Lines 98-111: the branch for use_fractional_gates = False.
filter_fractional(raw_config) ==
    [k \in DOMAIN raw_config |->
        CASE k = "basis_gates" -> Without(raw_config[k], FRACTIONAL_GATES)
          [] k = "gates" -> GatesWithout(raw_config[k], FRACTIONAL_GATES)
          [] k = "supported_instructions" -> Without(raw_config[k], FRACTIONAL_GATES)
          [] OTHER -> raw_config[k]]

\* Lines 89-97: the branch for use_fractional_gates = True.
filter_dynamic(raw_config) ==
    [k \in DOMAIN raw_config |->
        CASE k = "supported_instructions" -> Without(raw_config[k], DYNAMIC_INSTRUCTIONS)
          [] k = "supported_features" -> Without(raw_config[k], {"qasm3"})
          [] OTHER -> raw_config[k]]

\* Lines 77-111: filter_raw_configuration(raw_config, use_fractional_gates) on a
\* configuration whose gates are dictionaries.
filter_raw_configuration(raw_config, use_fractional_gates) ==
    IF use_fractional_gates = None THEN raw_config
    ELSE IF use_fractional_gates[1] THEN filter_dynamic(raw_config)
    ELSE filter_fractional(raw_config)

\* Lines 103-106: g.get("name") raises AttributeError on a gate that is not a dictionary;
\* basis_gates has been filtered by then, gates and supported_instructions have not.
filter_raw_configuration_step(raw_config, use_fractional_gates) ==
    IF /\ use_fractional_gates = Some(FALSE)
       /\ "gates" \in DOMAIN raw_config
       /\ \E i \in DOMAIN raw_config["gates"] : ~raw_config["gates"][i].is_dict
    THEN Step("AttributeError",
              IfPresent(raw_config, "basis_gates",
                        IF "basis_gates" \in DOMAIN raw_config
                        THEN Without(raw_config["basis_gates"], FRACTIONAL_GATES) ELSE << >>))
    ELSE Step("none", filter_raw_configuration(raw_config, use_fractional_gates))

MaxEntries == 2     \* the most list entries a raw configuration holds in total

\* The entries the lists of a raw configuration are made of.
BasisGateNames == {"rx", "rzz", "cx"}
GateEntries == {Gate("rx"), Gate("rzz"), Gate("cx"), UnnamedGate}
InstructionNames == FRACTIONAL_GATES \cup DYNAMIC_INSTRUCTIONS \cup {"delay"}
FeatureNames == {"qasm3", "qiskit.pulse"}

\* A key that is absent (n < 0) or holds a list of n entries of S.
Lists(S, n) == IF n < 0 THEN {None} ELSE {Some(v) : v \in [1..n -> S]}

\* The dictionary with the keys of opts that hold a value.
DictOf(opts) == [k \in {key \in DOMAIN opts : opts[key] # None} |-> opts[k][1]]

\* The list lengths of basis_gates, gates, supported_instructions and supported_features
\* (-1 for an absent key), at most MaxEntries entries in total.
Positive(n) == IF n < 0 THEN 0 ELSE n
ListLengths ==
    {n \in [1..4 -> -1..MaxEntries] :
        Positive(n[1]) + Positive(n[2]) + Positive(n[3]) + Positive(n[4]) <= MaxEntries}

\* The raw configurations the server sends: any of the four filtered keys, and a key the
\* filter does not know.
RawConfigs ==
    UNION {{DictOf([basis_gates |-> b, gates |-> g, supported_instructions |-> i,
                    supported_features |-> f,
                    discriminators |-> Some(<<"rx", "qasm3", "if_else">>)]) :
                b \in Lists(BasisGateNames, n[1]), g \in Lists(GateEntries, n[2]),
                i \in Lists(InstructionNames, n[3]), f \in Lists(FeatureNames, n[4])} :
           n \in ListLengths}

NoFilterCall == [op |-> "none", flag |-> None, input |-> << >>, before |-> << >>, applied |-> 0]

\* No raw configuration has been received.
FilterIdle ==
    /\ rawConfig = << >>
    /\ filterCall = NoFilterCall

\* A raw configuration has been received from the server.
FilterInputInit ==
    /\ rawConfig \in RawConfigs
    /\ filterCall = NoFilterCall

\* filter_raw_configuration(raw_config, use_fractional_gates=flag); applied counts the calls
\* made in a row with the same flag (up to 2), input is the configuration before the first
\* of them.
FilterRawConfiguration ==
    /\ \E flag \in FractionalFlags :
        /\ rawConfig' = filter_raw_configuration(rawConfig, flag)
        /\ filterCall' =
              IF filterCall.op = "filter_raw_configuration" /\ filterCall.flag = flag
              THEN [filterCall EXCEPT !.before = rawConfig, !.applied = 2]
              ELSE [op |-> "filter_raw_configuration", flag |-> flag, input |-> rawConfig,
                    before |-> rawConfig, applied |-> 1]
    /\ UNCHANGED <<cfgCall, dfCall, notDecoder>>

\* The raw_config values configuration_from_server_data is called with: [is_dict, d], d the
\* dictionary when raw_config is one.
DateInputs == {None, Some([t |-> "str", s |-> IsoDate]), Some([t |-> "str", s |-> NotIsoDate])}
ScaleInputs == {None, Some(PyList(<<0, 1>>)), Some(PyComplex(0, 1)), Some(PyReal(1))}
UChannelInputs ==
    {None} \cup {Some(<<<<[scale |-> x]>>>>) : x \in ScaleInputs}
           \cup {Some(<<<<[scale |-> Some(PyList(<<1, 0>>))]>>, <<[scale |-> Some(PyReal(1))]>>>>)}
GatesInputs == {None, Some(<<Gate("rx"), Gate("cx")>>), Some(<<NotAGate>>)}

ServerConfigs ==
    {[is_dict |-> FALSE, d |-> << >>]} \cup
    {[is_dict |-> TRUE,
      d |-> DictOf([online_date |-> d, u_channel_lo |-> u, gates |-> g,
                    basis_gates |-> Some(<<"rx", "cx">>)])] :
        d \in DateInputs, u \in UChannelInputs, g \in GatesInputs}

\* What PulseBackendConfiguration.from_dict and QasmBackendConfiguration.from_dict do with
\* the decoded dictionary: build the model ("ok") or raise.
PulseOutcomes == {"ok", "KeyError", "TypeError", "ValueError"}
QasmOutcomes == {"ok", "KeyError"}

\* The result of configuration_from_server_data: the exception that left the function, the
\* value returned and raw_config as the call left it.
ConfigurationResult(raised, ret, config) == [raised |-> raised, ret |-> ret, config |-> config]

\* Mutant of except_Exception: the handler is "except (KeyError, TypeError)".
except_Exception_mut(raised, config) ==
    IF raised \in {"KeyError", "TypeError"} THEN ConfigurationResult("none", None, config)
    ELSE ConfigurationResult(raised, None, config)

\* Lines 66-74: "except Exception" logs a warning and the function returns None.
except_Exception(raised, config) == ConfigurationResult("none", None, config)

\* Lines 61-65: the inner try with the decoded and filtered config.
from_dict_pulse_or_qasm(config, pulse, qasm) ==
    IF pulse = "ok"
    THEN ConfigurationResult("none", Some([cls |-> "PulseBackendConfiguration", data |-> config]),
                             config)
    ELSE IF pulse \in {"KeyError", "TypeError"}
    THEN IF qasm = "ok"
         THEN ConfigurationResult("none",
                                  Some([cls |-> "QasmBackendConfiguration", data |-> config]),
                                  config)
         ELSE except_Exception(qasm, config)
    ELSE except_Exception(pulse, config)

\* Lines 52-74: configuration_from_server_data(raw_config, use_fractional_gates=flag)
configuration_from_server_data(raw_config, flag, pulse, qasm) ==
    IF ~raw_config.is_dict THEN ConfigurationResult("none", None, raw_config.d)
    ELSE IF decode_backend_configuration(raw_config.d).raised # "none"
    THEN except_Exception(decode_backend_configuration(raw_config.d).raised,
                          decode_backend_configuration(raw_config.d).obj)
    ELSE IF filter_raw_configuration_step(decode_backend_configuration(raw_config.d).obj,
                                          flag).raised # "none"
    THEN except_Exception(
             filter_raw_configuration_step(decode_backend_configuration(raw_config.d).obj,
                                           flag).raised,
             filter_raw_configuration_step(decode_backend_configuration(raw_config.d).obj,
                                           flag).obj)
    ELSE from_dict_pulse_or_qasm(
             filter_raw_configuration_step(decode_backend_configuration(raw_config.d).obj,
                                           flag).obj, pulse, qasm)

NoConfigurationCall == [op |-> "none", args |-> << >>, out |-> << >>]

ConfigurationInit == cfgCall = NoConfigurationCall

\* configuration_from_server_data(raw_config, instance, use_fractional_gates)
ConfigurationFromServerData ==
    /\ \E raw_config \in ServerConfigs, flag \in FractionalFlags, pulse \in PulseOutcomes,
          qasm \in QasmOutcomes :
        cfgCall' = [op |-> "configuration_from_server_data",
                    args |-> [raw_config |-> raw_config, use_fractional_gates |-> flag,
                              pulse |-> pulse, qasm |-> qasm],
                    out |-> Some(configuration_from_server_data(raw_config, flag, pulse, qasm))]
    /\ UNCHANGED <<rawConfig, filterCall, dfCall, notDecoder>>

\* The values pulse defaults hold where a complex number is expected.
SampleValues == {PyList(<<0, 1>>), PyComplex(1, 0), PyReal(1)}

\* Lines 203-205: pulse_library_item["samples"] = [_to_complex(sample) for sample in ...];
\* the item keeps its samples when one of them raises.
decode_pulse_library_item(pulse_library_item) ==
    IF \E i \in DOMAIN pulse_library_item.samples :
           to_complex(pulse_library_item.samples[i]).raised # "none"
    THEN Step("TypeError", pulse_library_item)
    ELSE Step("none", [samples |-> [i \in DOMAIN pulse_library_item.samples |->
                                       to_complex(pulse_library_item.samples[i]).ret[1]]])

\* Lines 214-215: the 'val' of an instruction [val, parameters], None for an absent key.
decode_val(pulse_qobj_instr) ==
    IF pulse_qobj_instr.val = None THEN Step("none", pulse_qobj_instr)
    ELSE IF to_complex(pulse_qobj_instr.val[1]).raised # "none"
         THEN Step("TypeError", pulse_qobj_instr)
         ELSE Step("none", [pulse_qobj_instr EXCEPT !.val = to_complex(pulse_qobj_instr.val[1]).ret])

\* Lines 216-217: the 'amp' of the instruction's parameters [amp], None for an absent key.
decode_amp(pulse_qobj_instr) ==
    IF pulse_qobj_instr.parameters = None \/ pulse_qobj_instr.parameters[1].amp = None
    THEN Step("none", pulse_qobj_instr)
    ELSE IF to_complex(pulse_qobj_instr.parameters[1].amp[1]).raised # "none"
         THEN Step("TypeError", pulse_qobj_instr)
         ELSE Step("none", [pulse_qobj_instr EXCEPT !.parameters =
                               Some([amp |-> to_complex(pulse_qobj_instr.parameters[1].amp[1]).ret])])

\* Lines 208-217: _decode_pulse_qobj_instr(pulse_qobj_instr)
decode_pulse_qobj_instr(pulse_qobj_instr) ==
    IF decode_val(pulse_qobj_instr).raised # "none" THEN decode_val(pulse_qobj_instr)
    ELSE decode_amp(decode_val(pulse_qobj_instr).obj)

\* Lines 126-129: a command [name, sequence], sequence = None for an absent key.
decode_cmd(cmd) ==
    IF cmd.sequence = None THEN Step("none", cmd)
    ELSE Step(Loop(cmd.sequence[1],
                   [i \in DOMAIN cmd.sequence[1] |-> decode_pulse_qobj_instr(cmd.sequence[1][i])]).raised,
              [cmd EXCEPT !.sequence =
                  Some(Loop(cmd.sequence[1],
                            [i \in DOMAIN cmd.sequence[1] |->
                                decode_pulse_qobj_instr(cmd.sequence[1][i])]).obj)])

\* Lines 123-124: the loop over defaults["pulse_library"].
decode_pulse_library(pulse_library) ==
    Loop(pulse_library, [i \in DOMAIN pulse_library |-> decode_pulse_library_item(pulse_library[i])])

\* Lines 126-129: the loop over defaults["cmd_def"].
decode_cmd_def(cmd_def) == Loop(cmd_def, [i \in DOMAIN cmd_def |-> decode_cmd(cmd_def[i])])

\* The result of defaults_from_server_data: the exception that left the function, the
\* PulseDefaults returned and the defaults dictionary as the call left it.
DefaultsResult(raised, defaults) ==
    [raised |-> raised,
     ret |-> IF raised = "none" THEN Some([cls |-> "PulseDefaults", data |-> defaults]) ELSE None,
     defaults |-> defaults]

\* Lines 123-131: defaults_from_server_data(defaults)
defaults_from_server_data(defaults) ==
    IF decode_pulse_library(defaults.pulse_library).raised # "none"
    THEN DefaultsResult(decode_pulse_library(defaults.pulse_library).raised,
                        [defaults EXCEPT !.pulse_library =
                            decode_pulse_library(defaults.pulse_library).obj])
    ELSE DefaultsResult(decode_cmd_def(defaults.cmd_def).raised,
                        [pulse_library |-> decode_pulse_library(defaults.pulse_library).obj,
                         cmd_def |-> decode_cmd_def(defaults.cmd_def).obj])

\* The pulse defaults the server sends: one pulse library item of 0..MaxSamples samples and a
\* cmd_def of at most two commands: one command with or without a 'sequence' of at most one
\* instruction (with at most one sample in the library item), or a command without
\* 'sequence' followed by one with a 'val' and an 'amp'.
ValInputs == {None} \cup {Some(v) : v \in SampleValues}
ParametersInputs == {None, Some([amp |-> None])} \cup {Some([amp |-> Some(v)]) : v \in SampleValues}
InstrInputs == {[val |-> v, parameters |-> p] : v \in ValInputs, p \in ParametersInputs}
CmdInputs ==
    {[name |-> "x", sequence |-> None], [name |-> "x", sequence |-> Some(<< >>)]}
        \cup {[name |-> "x", sequence |-> Some(<<instr>>)] : instr \in InstrInputs}
CmdDefInputs ==
    {<< >>} \cup {<<cmd>> : cmd \in CmdInputs}
            \cup {<<[name |-> "measure", sequence |-> None],
                    [name |-> "x", sequence |-> Some(<<[val |-> Some(v), parameters |-> Some([amp |-> Some(a)])]>>)]>> :
                        v \in SampleValues, a \in SampleValues}
DefaultsInputs ==
    {[pulse_library |-> <<[samples |-> s]>>, cmd_def |-> c] :
        s \in SeqsUpTo(SampleValues, MaxSamples),
        c \in {cd \in CmdDefInputs : Len(cd) # 1}}
    \cup {[pulse_library |-> <<[samples |-> s]>>, cmd_def |-> c] :
        s \in SeqsUpTo(SampleValues, 1), c \in CmdDefInputs}

NoDefaultsCall == [op |-> "none", args |-> << >>, out |-> << >>, twice |-> << >>]

DefaultsInit == dfCall = NoDefaultsCall

\* _to_complex(value), and _to_complex of what it returned
ToComplex ==
    /\ \E value \in ComplexInputs :
        dfCall' = [op |-> "_to_complex", args |-> [value |-> value],
                   out |-> Some(to_complex(value)),
                   twice |-> IF to_complex(value).raised = "none"
                             THEN Some(to_complex(to_complex(value).ret[1])) ELSE None]
    /\ UNCHANGED <<rawConfig, filterCall, cfgCall, notDecoder>>

\* defaults_from_server_data(defaults)
DefaultsFromServerData ==
    /\ \E defaults \in DefaultsInputs :
        dfCall' = [op |-> "defaults_from_server_data", args |-> [defaults |-> defaults],
                   out |-> Some(defaults_from_server_data(defaults)), twice |-> None]
    /\ UNCHANGED <<rawConfig, filterCall, cfgCall, notDecoder>>

DecoderInit == FilterIdle /\ ConfigurationInit /\ DefaultsInit

(***************************************************************************)
(* utils/noise_learner_result.py                                           *)
(* A Pauli is the sequence of its letters, one per qubit. A PauliList is   *)
(* the record [num_qubits, paulis]. An array of rates is the record        *)
(* [ndim, rows]: a scalar x has ndim 0 and rows <<<<x>>>>, a list r has    *)
(* ndim 1 and rows <<r>>, a list of lists has ndim 2 and its rows.         *)
(***************************************************************************)
MaxTerms == 2       \* the most generator terms of a PauliList

\* The Paulis the generators are drawn from, per number of qubits.
PauliPool ==
    <<{<<"I">>, <<"Y">>},
      {<<"X", "I">>, <<"I", "Z">>, <<"Y", "Z">>}>>

\* The generators callers pass: up to MaxTerms distinct terms of the pool, in any order.
PauliLists ==
    UNION {{[num_qubits |-> n, paulis |-> p] :
               p \in {t \in SeqsUpTo(PauliPool[n], MaxTerms) :
                         \A i, j \in DOMAIN t : t[i] = t[j] => i = j}} :
           n \in DOMAIN PauliPool}

\* The rates callers pass: lists of 0..MaxTerms + 1 rates, a scalar and a list of lists.
RateLists == {[i \in 1..k |-> i] : k \in 0..(MaxTerms + 1)} \cup {<<2, 1>>}
RatesInputs ==
    {[ndim |-> 1, rows |-> <<r>>] : r \in RateLists}
        \cup {[ndim |-> 0, rows |-> <<<<1>>>>], [ndim |-> 2, rows |-> <<<<1>>, <<2>>>>]}

\* numpy.asarray(rates, dtype=float).shape
Shape(rates) ==
    CASE rates.ndim = 0 -> << >>
      [] rates.ndim = 1 -> <<Len(rates.rows[1])>>
      [] OTHER -> <<Len(rates.rows), Len(rates.rows[1])>>

\* Mutant of PauliLindbladError_init: only the first dimension of rates is compared.
PauliLindbladError_init_mut(generators, rates) ==
    IF rates.ndim = 0 \/ Len(generators.paulis) # Shape(rates)[1] THEN Raised("ValueError")
    ELSE Returned([generators |-> generators, rates |-> rates])

\* Lines 76-84: PauliLindbladError(generators, rates)
PauliLindbladError_init(generators, rates) ==
    IF <<Len(generators.paulis)>> # Shape(rates) THEN Raised("ValueError")
    ELSE Returned([generators |-> generators, rates |-> rates])

\* Lines 100-105: PauliLindbladError.num_qubits
PauliLindbladError_num_qubits(self) == self.generators.num_qubits

\* PauliList.x and PauliList.z of one Pauli: the qubits with an X part, with a Z part.
PauliX(pauli) == [q \in DOMAIN pauli |-> pauli[q] \in {"X", "Y"}]
PauliZ(pauli) == [q \in DOMAIN pauli |-> pauli[q] \in {"Z", "Y"}]

\* Mutant of restrict_mask: only the X parts are counted.
restrict_mask_mut(generators, num_qubits) ==
    {i \in DOMAIN generators.paulis :
        Cardinality({q \in DOMAIN generators.paulis[i] : PauliX(generators.paulis[i])[q]})
            = num_qubits}

\* Line 123: np.sum(generators.x | generators.z, axis=1) == num_qubits, as the set of the
\* indices where the mask is True.
restrict_mask(generators, num_qubits) ==
    {i \in DOMAIN generators.paulis :
        Cardinality({q \in DOMAIN generators.paulis[i] :
                        PauliX(generators.paulis[i])[q] \/ PauliZ(generators.paulis[i])[q]})
            = num_qubits}

\* array[mask]: the items at the indices of the mask, in order.
Masked(seq, mask) == SelectSeq([i \in DOMAIN seq |-> <<i, seq[i]>>], LAMBDA e : e[1] \in mask)

\* Lines 121-124: self.restrict_num_bodies(num_qubits)
restrict_num_bodies(self, num_qubits) ==
    IF num_qubits < 0 THEN Raised("ValueError")
    ELSE PauliLindbladError_init(
             [num_qubits |-> self.generators.num_qubits,
              paulis |-> [i \in DOMAIN Masked(self.generators.paulis,
                                             restrict_mask(self.generators, num_qubits)) |->
                             Masked(self.generators.paulis,
                                    restrict_mask(self.generators, num_qubits))[i][2]]],
             [ndim |-> 1,
              rows |-> <<[i \in DOMAIN Masked(self.rates.rows[1],
                                              restrict_mask(self.generators, num_qubits)) |->
                             Masked(self.rates.rows[1],
                                    restrict_mask(self.generators, num_qubits))[i][2]]>>])

\* The circuits and qubit labels LayerError is built from.
CircuitSizes == {1, 2, 3}
QubitLabels == {<< >>, <<8>>, <<8, 9>>, <<9, 8>>, <<7, 11, 27>>}

\* Mutant of LayerError_init: the error's number of qubits is not compared.
LayerError_init_mut(circuit, qubits, error) ==
    IF Cardinality({circuit.num_qubits, Len(qubits)}) # 1
    THEN Raised("ValueError")
    ELSE Returned([circuit |-> circuit, qubits |-> qubits, error |-> error])

\* Lines 146-154: LayerError(circuit, qubits, error)
LayerError_init(circuit, qubits, error) ==
    IF Cardinality({circuit.num_qubits, Len(qubits), PauliLindbladError_num_qubits(error)}) # 1
    THEN Raised("ValueError")
    ELSE Returned([circuit |-> circuit, qubits |-> qubits, error |-> error])

\* Lines 203-208: LayerError.num_qubits
LayerError_num_qubits(self) == Len(self.qubits)

NoNoiseCall == [op |-> "none", args |-> << >>, self |-> << >>, out |-> << >>]

NoiseInit ==
    /\ ple = None
    /\ noiseCall = NoNoiseCall

\* error = PauliLindbladError(generators, rates)
PauliLindbladErrorConstruct ==
    /\ \E generators \in PauliLists, rates \in RatesInputs :
        /\ ple' = IF PauliLindbladError_init(generators, rates).raised = "none"
                  THEN PauliLindbladError_init(generators, rates).ret ELSE ple
        /\ noiseCall' = [op |-> "PauliLindbladError", self |-> None,
                         args |-> [generators |-> generators, rates |-> rates],
                         out |-> Some(PauliLindbladError_init(generators, rates))]
    /\ UNCHANGED notNoise

\* error.restrict_num_bodies(num_qubits)
RestrictNumBodies ==
    /\ ple # None
    /\ \E num_qubits \in -1..3 :
        noiseCall' = [op |-> "restrict_num_bodies", self |-> ple,
                      args |-> [num_qubits |-> num_qubits],
                      out |-> Some(restrict_num_bodies(ple[1], num_qubits))]
    /\ UNCHANGED <<ple, notNoise>>

\* LayerError(circuit, qubits, error) with the error constructed last
LayerErrorConstruct ==
    /\ ple # None
    /\ \E n \in CircuitSizes, qubits \in QubitLabels :
        noiseCall' = [op |-> "LayerError", self |-> None,
                      args |-> [circuit |-> [num_qubits |-> n], qubits |-> qubits, error |-> ple[1]],
                      out |-> Some(LayerError_init([num_qubits |-> n], qubits, ple[1]))]
    /\ UNCHANGED <<ple, notNoise>>

(***************************************************************************)
(* visualization/draw_execution_spans.py: draw_execution_spans.  A span is *)
(* a record [start, stop, size] with times counted from 1970-01-01; a      *)
(* collection (ExecutionSpans) is a sequence of spans.  The figure is the  *)
(* sequence of its traces.  The y value of a trace is kept as the fraction *)
(* [num, den] of the sizes added so far over total_size.                   *)
(***************************************************************************)
MaxSpans == 2       \* the most spans of the first collection

SpanPool ==
    {[start |-> 5, stop |-> 6, size |-> 2],
     [start |-> 3, stop |-> 7, size |-> 1],
     [start |-> 3, stop |-> 4, size |-> 3]}

\* The second collection of a call, when there is one.
OtherCollections ==
    {<< >>,
     <<[start |-> 4, stop |-> 5, size |-> 1]>>,
     <<[start |-> 8, stop |-> 9, size |-> 2], [start |-> 2, stop |-> 9, size |-> 4]>>}

SpansInputs ==
    {<< >>} \cup {<<c>> : c \in SeqsUpTo(SpanPool, MaxSpans)}
            \cup {<<c, d>> : c \in SeqsUpTo(SpanPool, MaxSpans), d \in OtherCollections}

\* ExecutionSpan.__lt__: spans are ordered by (start, stop).
SpanLt(a, b) == a.start < b.start \/ (a.start = b.start /\ a.stop < b.stop)

\* enumerate(single_spans): the pairs <<idx, span>> with idx counted from 0.
Enumerate(single_spans) == [i \in DOMAIN single_spans |-> <<i - 1, single_spans[i]>>]

\* Mutant of sorted_spans: the spans are drawn in their original order.
sorted_spans_mut(single_spans) == Enumerate(single_spans)

\* Line 85: sorted(enumerate(single_spans), key=lambda x: x[1]); the sort is stable, so
\* the pair at position k is the one with exactly k - 1 pairs before it.
sorted_spans(single_spans) ==
    LET e == Enumerate(single_spans)
        Before(i, j) == SpanLt(e[i][2], e[j][2]) \/ (~SpanLt(e[j][2], e[i][2]) /\ i < j)
        At(k) == CHOOSE j \in DOMAIN e : Cardinality({i \in DOMAIN e : Before(i, j)}) = k - 1
    IN  [k \in DOMAIN e |-> e[At(k)]]

\* sum(span.size for span in spans)
RECURSIVE SumSizes(_)
SumSizes(spans) ==
    IF spans = << >> THEN 0 ELSE spans[1].size + SumSizes(Tail(spans))

\* Lines 87-90: the offset subtracted from the times of one collection.
span_offset(sorted, common_start) == IF common_start THEN sorted[1][2].start ELSE 0

\* Line 92: total_size
span_total_size(single_spans, normalize_y) ==
    IF normalize_y THEN SumSizes(single_spans) ELSE 1

\* Lines 81-108: the traces added for the collection at position c of the arguments.
collection_traces(single_spans, c, common_start, normalize_y) ==
    IF single_spans = << >> THEN << >>
    ELSE LET sorted == sorted_spans(single_spans)
             offset == span_offset(sorted, common_start)
             total_size == span_total_size(single_spans, normalize_y)
         IN  [k \in DOMAIN sorted |->
                [x |-> <<sorted[k][2].start - offset, sorted[k][2].stop - offset>>,
                 y |-> [num |-> SumSizes([j \in 1..k |-> sorted[j][2]]), den |-> total_size],
                 text |-> [idx |-> sorted[k][1], span |-> sorted[k][2]],
                 color |-> c]]

\* Lines 51-119: draw_execution_spans(*spans, common_start, normalize_y)
RECURSIVE draw_execution_spans(_, _, _, _)
draw_execution_spans(spans, c, common_start, normalize_y) ==
    IF c > Len(spans) THEN << >>
    ELSE collection_traces(spans[c], c, common_start, normalize_y)
            \o draw_execution_spans(spans, c + 1, common_start, normalize_y)

DrawInit ==
    /\ fig = << >>
    /\ drawCall = [op |-> "none", spans |-> << >>, common_start |-> FALSE,
                   normalize_y |-> FALSE]

DrawExecutionSpans ==
    /\ \E spans \in SpansInputs, common_start \in BOOLEAN, normalize_y \in BOOLEAN :
          /\ drawCall' = [op |-> "draw_execution_spans", spans |-> spans,
                          common_start |-> common_start, normalize_y |-> normalize_y]
          /\ fig' = draw_execution_spans(spans, 1, common_start, normalize_y)
    /\ UNCHANGED notDraw

(***************************************************************************)
(* debug_tools/neat.py: Neat.  A circuit is a sequence of instructions     *)
(* [name, params]; the angle of an rz gate is counted in units of pi/4, so *)
(* 0, 2, 4 and 6 are 0, pi/2, pi and 3*pi/2.  A PUB is a record [circuit]. *)
(* The PUBs drawn here are ISA circuits with well-formed observables, the  *)
(* ones validate_estimator_pubs and validate_isa_circuits let through.     *)
(* neat is the analyzer (<< >> before one is constructed), assigned the    *)
(* noise model given last to the constructor or the setter, neatCall the   *)
(* last call with its outcome and, in run, the simulation it started.      *)
(***************************************************************************)
MaxPubs == 2        \* the most PUBs of one call

NoiseModels == {"nm1", "nm2"}

Rz(angle) == [name |-> "rz", params |-> <<angle>>]
Instr(name) == [name |-> name, params |-> << >>]

CircuitPool ==
    {<<Rz(2)>>, <<Instr("sx"), Rz(1)>>, <<Rz(8), Instr("x")>>, <<Instr("sx"), Rz(4), Rz(6)>>}

PubInputs == SeqsUpTo({[circuit |-> c] : c \in CircuitPool}, MaxPubs)

\* Line 63: the angles the check accepts: 0, pi/2, pi, 3*pi/2.
clifford_angles == {0, 2, 4, 6}

\* Mutant of _validate_pubs: only the first instruction of each circuit is looked at.
validate_pubs_mut(pubs, validate_clifford) ==
    IF validate_clifford
       /\ \E p \in DOMAIN pubs :
             /\ pubs[p].circuit[1].name = "rz"
             /\ pubs[p].circuit[1].params[1] \notin clifford_angles
    THEN Raised("ValueError")
    ELSE Returned(None)

\* Lines 38-68: _validate_pubs(backend, pubs, validate_clifford)
validate_pubs(pubs, validate_clifford) ==
    IF validate_clifford
       /\ \E p \in DOMAIN pubs : \E i \in DOMAIN pubs[p].circuit :
             /\ pubs[p].circuit[i].name = "rz"
             /\ pubs[p].circuit[i].params[1] \notin clifford_angles
    THEN Raised("ValueError")
    ELSE Returned(None)

\* numpy.round(angle / (pi/2)) * (pi/2) in units of pi/4: halves go to the even multiple.
nearest_clifford_angle(angle) ==
    IF angle % 2 = 0 THEN angle
    ELSE LET k == (angle - 1) \div 2 IN IF k % 2 = 0 THEN 2 * k ELSE 2 * (k + 1)

\* ConvertISAToClifford: every rz angle is replaced by the nearest multiple of pi/2.
ConvertISAToClifford(circuit) ==
    [i \in DOMAIN circuit |->
        IF circuit[i].name = "rz"
        THEN Rz(nearest_clifford_angle(circuit[i].params[1]))
        ELSE circuit[i]]

\* Lines 208-234: Neat.to_clifford(pubs)
to_clifford(pubs) ==
    IF \E p \in DOMAIN pubs : validate_pubs(<<pubs[p]>>, FALSE).raised # "none"
    THEN Raised("ValueError")
    ELSE Returned([p \in DOMAIN pubs |-> [circuit |-> ConvertISAToClifford(pubs[p].circuit)]])

\* Lines 192-195: the PUBs handed to the simulator, or the error raised before.
simulate_pubs(pubs, cliffordize) ==
    IF cliffordize THEN to_clifford(pubs)
    ELSE IF validate_pubs(pubs, TRUE).raised # "none" THEN validate_pubs(pubs, TRUE)
    ELSE Returned(pubs)

\* Lines 197-201: backend_options
backend_options(self, with_noise) ==
    [method |-> "stabilizer", noise_model |-> IF with_noise THEN Some(self.noise_model) ELSE None]

NoNeatCall == [op |-> "none", args |-> << >>, out |-> << >>, run |-> << >>]

NeatInit ==
    /\ neat = << >>
    /\ assigned = << >>
    /\ neatCall = NoNeatCall

\* Lines 118-131: Neat(backend, noise_model)
NeatConstruct ==
    /\ \E has_qiskit_aer \in BOOLEAN, noise_model \in {None} \cup {Some(m) : m \in NoiseModels} :
          LET model == IF noise_model # None THEN noise_model[1] ELSE "from_backend"
          IN  IF ~has_qiskit_aer
              THEN /\ neatCall' = [op |-> "__init__", args |-> [noise_model |-> noise_model],
                                   out |-> Some(Raised("ValueError")), run |-> None]
                   /\ UNCHANGED <<neat, assigned>>
              ELSE /\ neat' = Some([noise_model |-> model])
                   /\ assigned' = Some(model)
                   /\ neatCall' = [op |-> "__init__", args |-> [noise_model |-> noise_model],
                                   out |-> Some(Returned(None)), run |-> None]
    /\ UNCHANGED notNeat

\* Lines 140-147: the noise_model setter
NeatSetNoiseModel ==
    /\ neat # << >>
    /\ \E value \in NoiseModels :
          /\ neat' = Some([neat[1] EXCEPT !.noise_model = value])
          /\ assigned' = Some(value)
          /\ neatCall' = [op |-> "noise_model", args |-> [value |-> value],
                          out |-> Some(Returned(None)), run |-> None]
    /\ UNCHANGED notNeat

\* Lines 154-206: Neat.simulate(pubs, with_noise, cliffordize)
NeatSimulate ==
    /\ neat # << >>
    /\ \E pubs \in PubInputs, with_noise \in BOOLEAN, cliffordize \in BOOLEAN :
          LET coerced == simulate_pubs(pubs, cliffordize)
              args == [pubs |-> pubs, with_noise |-> with_noise, cliffordize |-> cliffordize]
          IN  IF coerced.raised # "none"
              THEN neatCall' = [op |-> "simulate", args |-> args,
                                out |-> Some(coerced), run |-> None]
              ELSE neatCall' =
                      [op |-> "simulate", args |-> args,
                       out |-> Some(Returned([results |-> Len(coerced.ret[1])])),
                       run |-> Some([pubs |-> coerced.ret[1],
                                     backend_options |-> backend_options(neat[1], with_noise)])]
    /\ UNCHANGED <<neat, assigned>>
    /\ UNCHANGED notNeat

\* Lines 208-234: a call of Neat.to_clifford(pubs)
NeatToClifford ==
    /\ neat # << >>
    /\ \E pubs \in PubInputs :
          neatCall' = [op |-> "to_clifford", args |-> [pubs |-> pubs],
                       out |-> Some(to_clifford(pubs)), run |-> None]
    /\ UNCHANGED <<neat, assigned>>
    /\ UNCHANGED notNeat

(***************************************************************************)
(* utils/backend_decoder.py: properties_from_server_data.  The properties  *)
(* are a record [last_update_date, qubits, gates, general]: qubits is a    *)
(* list of lists of entries [date], gates a list of [parameters] holding   *)
(* such entries, general a list of them.  The dictionary is changed in     *)
(* place; propCall keeps the properties as given, as the call leaves them  *)
(* and the outcome of the call.                                            *)
(***************************************************************************)
DateStr == [t |-> "str", s |-> IsoDate]
DateTime == [t |-> "datetime", s |-> IsoDate]

\* The dates of the entries of one list, as the server or a caller supplies them.
DateLists ==
    {<< >>, <<DateStr>>, <<DateTime>>, <<DateStr, DateStr>>, <<DateStr, DateTime>>,
     <<DateTime, DateStr>>}

DateEntries(dates) == [i \in DOMAIN dates |-> [date |-> dates[i]]]

PropertiesInputs ==
    {[last_update_date |-> l, qubits |-> q, gates |-> g, general |-> DateEntries(n)] :
        l \in {DateStr, DateTime, [t |-> "str", s |-> NotIsoDate]},
        q \in {<< >>} \cup {<<DateEntries(d)>> : d \in DateLists \ {<< >>}},
        g \in {<< >>} \cup {<<[parameters |-> DateEntries(d)]>> : d \in DateLists \ {<< >>}},
        n \in DateLists}

\* x["date"] = dateutil.parser.isoparse(x["date"]) on one entry
decode_date_entry(entry) ==
    IF isoparse(entry.date).raised # "none" THEN Step(isoparse(entry.date).raised, entry)
    ELSE Step("none", [entry EXCEPT !.date = isoparse(entry.date).ret[1]])

\* Lines 146-147 and 151-152: the loop over the entries of one list
decode_date_entries(entries) ==
    Loop(entries, [i \in DOMAIN entries |-> decode_date_entry(entries[i])])

\* Lines 145-147: for qubit in properties["qubits"]
decode_qubits(qubits) ==
    Loop(qubits, [i \in DOMAIN qubits |-> decode_date_entries(qubits[i])])

\* Lines 148-150: for gate in properties["gates"]
decode_gates(gates) ==
    Loop(gates, [i \in DOMAIN gates |->
                    Step(decode_date_entries(gates[i].parameters).raised,
                         [parameters |-> decode_date_entries(gates[i].parameters).obj])])

\* Lines 143-152: the dates are decoded only when last_update_date is a string.
decode_properties_dates(properties) ==
    IF properties.last_update_date.t # "str" THEN Step("none", properties)
    ELSE IF isoparse(properties.last_update_date).raised # "none"
    THEN Step(isoparse(properties.last_update_date).raised, properties)
    ELSE LET p1 == [properties EXCEPT
                       !.last_update_date = isoparse(properties.last_update_date).ret[1]]
             q == decode_qubits(properties.qubits)
             p2 == [p1 EXCEPT !.qubits = q.obj]
             g == decode_gates(properties.gates)
             p3 == [p2 EXCEPT !.gates = g.obj]
             n == decode_date_entries(properties.general)
             p4 == [p3 EXCEPT !.general = n.obj]
         IN  IF q.raised # "none" THEN Step(q.raised, p2)
             ELSE IF g.raised # "none" THEN Step(g.raised, p3)
             ELSE Step(n.raised, p4)

\* utc_to_local: a datetime is moved to the local time zone, anything else is returned as
\* it is.
utc_to_local(date) ==
    IF date.t = "datetime" THEN [t |-> "datetime", s |-> date.s, tz |-> "local"] ELSE date

utc_to_local_entries(entries) ==
    [i \in DOMAIN entries |-> [date |-> utc_to_local(entries[i].date)]]

\* Line 154: utc_to_local_all(properties)
utc_to_local_all(properties) ==
    [last_update_date |-> utc_to_local(properties.last_update_date),
     qubits |-> [i \in DOMAIN properties.qubits |-> utc_to_local_entries(properties.qubits[i])],
     gates |-> [i \in DOMAIN properties.gates |->
                   [parameters |-> utc_to_local_entries(properties.gates[i].parameters)]],
     general |-> utc_to_local_entries(properties.general)]

\* Lines 134-155: properties_from_server_data(properties); BackendProperties.from_dict
\* keeps every date as it gets it.
properties_from_server_data(properties) ==
    IF decode_properties_dates(properties).raised # "none"
    THEN Raised(decode_properties_dates(properties).raised)
    ELSE Returned(utc_to_local_all(decode_properties_dates(properties).obj))

PropertiesInit ==
    propCall = [op |-> "none", args |-> << >>, properties |-> << >>, out |-> << >>]

PropertiesFromServerData ==
    /\ \E properties \in PropertiesInputs :
          propCall' = [op |-> "properties_from_server_data",
                       args |-> Some(properties),
                       properties |-> Some(decode_properties_dates(properties).obj),
                       out |-> Some(properties_from_server_data(properties))]
    /\ UNCHANGED notProperties

(***************************************************************************)
(* accounts/storage.py under concurrent callers.  Two callers run          *)
(* save_config on the same file, caller i for the account AccountNames[i], *)
(* while a third one runs read_config.  Nothing in storage.py locks the    *)
(* file, so the steps of the calls interleave at every file operation:     *)
(* _ensure_file_exists, the read with json.load, open(filename, mode="w"), *)
(* which empties the file, and json.dump with the close of the file.       *)
(* disk is the file: whether it exists, whether its text is one whole JSON *)
(* document, and that text.  saver[i] is caller i: its position, its       *)
(* arguments, the dictionary it loaded and the error it raised.  observed  *)
(* is the outcome of the last read_config.                                 *)
(***************************************************************************)
Savers == {1, 2}

IdleSaver == [pc |-> "idle", config |-> None, overwrite |-> FALSE, data |-> << >>,
              error |-> "none"]

ConcurrentInit ==
    /\ disk = [exists |-> FALSE, whole |-> TRUE, text |-> << >>]
    /\ saver = [i \in Savers |-> IdleSaver]
    /\ observed = "none"

\* Lines 99-108: _ensure_file_exists(filename) on the file as it is now.
ensure_file_exists(d) ==
    IF d.exists THEN d ELSE [exists |-> TRUE, whole |-> TRUE, text |-> json_dump(<< >>)]

\* Line 25: save_config(filename, name, config, overwrite) is called.
SaveCall ==
    /\ \E i \in Savers, config \in Configs, overwrite \in BOOLEAN :
          /\ saver[i].pc \in {"idle", "done"}
          /\ saver' = [saver EXCEPT ![i] = [pc |-> "called", config |-> Some(config),
                                            overwrite |-> overwrite, data |-> << >>,
                                            error |-> "none"]]
    /\ UNCHANGED <<disk, observed>>
    /\ UNCHANGED notConcurrent

\* Line 30: _ensure_file_exists(filename)
SaveEnsure ==
    /\ \E i \in Savers :
          /\ saver[i].pc = "called"
          /\ disk' = ensure_file_exists(disk)
          /\ saver' = [saver EXCEPT ![i].pc = "ensured"]
    /\ UNCHANGED observed
    /\ UNCHANGED notConcurrent

\* Lines 32-42: the file is read whole, then the guards are tested on what was read.
SaveLoad ==
    /\ \E i \in Savers :
          /\ saver[i].pc = "ensured"
          /\ saver' = [saver EXCEPT ![i] =
                IF ~disk.whole
                THEN [@ EXCEPT !.pc = "done", !.error = "JSONDecodeError"]
                ELSE IF save_config_error(json_load(disk.text), AccountNames[i],
                                          saver[i].overwrite, None) # "none"
                THEN [@ EXCEPT !.pc = "done",
                               !.error = save_config_error(json_load(disk.text), AccountNames[i],
                                                           saver[i].overwrite, None)]
                ELSE [@ EXCEPT !.pc = "loaded", !.data = json_load(disk.text)]]
    /\ UNCHANGED <<disk, observed>>
    /\ UNCHANGED notConcurrent

\* Line 44: open(filename, mode="w") empties the file.
SaveOpen ==
    /\ \E i \in Savers :
          /\ saver[i].pc = "loaded"
          /\ disk' = [exists |-> TRUE, whole |-> FALSE, text |-> << >>]
          /\ saver' = [saver EXCEPT ![i].pc = "opened"]
    /\ UNCHANGED observed
    /\ UNCHANGED notConcurrent

\* Lines 45-48: data[name] = config, json.dump(data, json_out) and the close of the file.
\* When the other caller wrote the file after this one opened it, this text is laid over
\* the other one from the start of the file, and what is left is one whole document or not.
SaveDump ==
    /\ \E i \in Savers, whole \in BOOLEAN :
          /\ saver[i].pc = "opened"
          /\ whole \/ disk.whole
          /\ disk' = [exists |-> TRUE, whole |-> whole,
                      text |-> json_dump(save_config_data(saver[i].data, AccountNames[i],
                                                          saver[i].config[1], None))]
          /\ saver' = [saver EXCEPT ![i].pc = "done"]
    /\ UNCHANGED observed
    /\ UNCHANGED notConcurrent

\* Lines 67-75: read_config(filename): _ensure_file_exists, then json.load of the file as
\* it is at that moment.
ReadDuring ==
    /\ disk' = ensure_file_exists(disk)
    /\ observed' = IF ensure_file_exists(disk).whole THEN "ok" ELSE "JSONDecodeError"
    /\ UNCHANGED saver
    /\ UNCHANGED notConcurrent

(***************************************************************************)
(* Specifications                                                          *)
(***************************************************************************)
Init == StorageInit /\ ClientInit /\ TranspInit /\ TwirlingInit /\ ExecutionInit
        /\ EstimatorInit /\ JobStatusInit /\ DecoderInit /\ NoiseInit /\ DrawInit /\ NeatInit /\ PropertiesInit /\ ConcurrentInit

StorageNext == SaveConfig \/ ReadConfig \/ DeleteConfig
SpecStorage == Init /\ [][StorageNext]_vars

ClientNext == ClientConstruct \/ GetAuthHandler \/ GetRuntimeApiBaseUrl
SpecClient == Init /\ [][ClientNext]_vars

TranspNext == TranspConstruct \/ TranspSetattr
SpecTranspilation == Init /\ [][TranspNext]_vars

TwirlingNext == TwirlingConstruct \/ TwirlingSetattr
SpecTwirling == Init /\ [][TwirlingNext]_vars

ExecutionNext == ExecutionConstruct \/ ExecutionSetattr
SpecExecution == Init /\ [][ExecutionNext]_vars

EstimatorNext == EstimatorConstruct \/ EstimatorRun \/ Estimator_run
SpecEstimator == Init /\ [][EstimatorNext]_vars

JobStatusNext == JobStatusConstruct \/ JobStatusFromDict \/ JobStatusGetattr
SpecJobStatus == Init /\ [][JobStatusNext]_vars

ConfigurationNext == ConfigurationFromServerData
SpecConfiguration == Init /\ [][ConfigurationNext]_vars

\* The filter is a function of the raw configuration: it is checked from every raw
\* configuration the server may have sent.
FilterInit ==
    /\ StorageInit /\ ClientInit /\ TranspInit /\ TwirlingInit /\ ExecutionInit
    /\ EstimatorInit /\ JobStatusInit
    /\ NoiseInit /\ DrawInit /\ NeatInit /\ PropertiesInit /\ ConcurrentInit
    /\ FilterInputInit /\ ConfigurationInit /\ DefaultsInit
FilterNext == FilterRawConfiguration
SpecFilter == FilterInit /\ [][FilterNext]_vars

DefaultsNext == ToComplex \/ DefaultsFromServerData
SpecDefaults == Init /\ [][DefaultsNext]_vars

NoiseNext == PauliLindbladErrorConstruct \/ RestrictNumBodies \/ LayerErrorConstruct
SpecNoise == Init /\ [][NoiseNext]_vars

DrawNext == DrawExecutionSpans
SpecDraw == Init /\ [][DrawNext]_vars

NeatNext == NeatConstruct \/ NeatSetNoiseModel \/ NeatSimulate \/ NeatToClifford
SpecNeat == Init /\ [][NeatNext]_vars

PropertiesNext == PropertiesFromServerData
SpecProperties == Init /\ [][PropertiesNext]_vars

ConcurrentNext ==
    SaveCall \/ SaveEnsure \/ SaveLoad \/ SaveOpen \/ SaveDump \/ ReadDuring
SpecConcurrentSave == Init /\ [][ConcurrentNext]_vars

(***************************************************************************)
(* Properties of accounts/storage.py, checked under SpecStorage            *)
(***************************************************************************)
\* The dictionary stored in the file before the last call (empty when there was no file).
DataBefore == IF prevExists THEN json_load(prevText) ELSE << >>
\* The dictionary stored in the file now.
DataNow == IF fileExists THEN json_load(fileText) ELSE << >>

\* C1 (as claimed): when the last call that touched account `name` was a save_config that
\* returned, read_config(filename, name) returns a value equal to the saved config.
C1_RoundTrip ==
    (sCall.op = "read_config" /\ sCall.name # None)
        => (lastSaved[sCall.name[1]] # None => sCall.ret = lastSaved[sCall.name[1]])

\* C2 (as claimed): save_config with overwrite=False on a name that is already a key of the
\* file raises AccountAlreadyExistsError and leaves the file as it was. Stated for the
\* account names other than the reserved key.
C2_OverwriteGuard ==
    ( /\ sCall.op = "save_config"
      /\ ~sCall.overwrite
      /\ sCall.name[1] # DEFAULT_CHANNEL_KEY
      /\ sCall.name[1] \in DOMAIN DataBefore )
        => (sCall.error # "none" /\ fileText = prevText)

\* C3 (as claimed): the 'default_channel already exists' error is raised only when the file
\* already holds a default_channel value, and saving a new account together with a
\* default_channel into a file without one succeeds with overwrite=False. Stated for the
\* account names other than the reserved key.
C3_DefaultChannelGuard ==
    (sCall.op = "save_config" /\ sCall.name[1] # DEFAULT_CHANNEL_KEY) =>
        /\ sCall.error = "default_channel_exists" => DEFAULT_CHANNEL_KEY \in DOMAIN DataBefore
        /\ ( /\ ~sCall.overwrite
             /\ sCall.name[1] \notin DOMAIN DataBefore
             /\ Truthy(sCall.default_channel)
             /\ DEFAULT_CHANNEL_KEY \notin DOMAIN DataBefore ) => sCall.error = "none"

\* C4 (as claimed): in the file, the reserved key default_channel maps to a channel string
\* passed as a default_channel argument, and every other key maps to the configuration
\* dictionary of the account saved under that name.
C4_FileShape ==
    \A k \in DOMAIN DataNow :
        IF k = DEFAULT_CHANNEL_KEY
        THEN Some(DataNow[k]) \in DefaultChannelArgs
        ELSE lastSaved[k] = Some(DataNow[k]) /\ DataNow[k].t = "dict"

\* C5: delete_config returns True exactly when `name` was a key before the call; then `name`
\* is absent and every other key keeps its value; otherwise it returns False and the contents
\* are unchanged.
C5_DeleteFrame ==
    sCall.op = "delete_config" =>
        LET n == sCall.name[1]
        IN  /\ sCall.ret = Some(n \in DOMAIN DataBefore)
            /\ n \in DOMAIN DataBefore =>
                  /\ DOMAIN DataNow = DOMAIN DataBefore \ {n}
                  /\ \A k \in DOMAIN DataNow : DataNow[k] = DataBefore[k]
            /\ n \notin DOMAIN DataBefore =>
                  /\ DataNow = DataBefore
                  /\ prevExists => fileText = prevText

\* C5 witness: a delete_config that returned True and left another key in the file.
C5_Witness ==
    /\ sCall.op = "delete_config"
    /\ sCall.ret = Some(TRUE)
    /\ DOMAIN DataNow # {}

\* C6: read_config never changes the stored mapping; it returns the whole mapping for
\* name=None, the stored value for a stored name and None for a name that is not stored; a
\* missing file is created holding the empty mapping.
C6_ReadFrame ==
    sCall.op = "read_config" =>
        /\ fileExists
        /\ DataNow = DataBefore
        /\ prevExists => fileText = prevText
        /\ ~prevExists => fileText = << >>
        /\ sCall.name = None => sCall.ret = Some(PyDict(DataBefore))
        /\ (sCall.name # None /\ sCall.name[1] \in DOMAIN DataBefore)
               => sCall.ret = Some(DataBefore[sCall.name[1]])
        /\ (sCall.name # None /\ sCall.name[1] \notin DOMAIN DataBefore) => sCall.ret = None

\* C6 witness: a read_config of a stored name from a file holding two keys.
C6_Witness ==
    /\ sCall.op = "read_config"
    /\ sCall.name # None
    /\ sCall.ret # None
    /\ Cardinality(DOMAIN DataNow) >= 2

(***************************************************************************)
(* Properties of api/client_parameters.py, checked under SpecClient        *)
(***************************************************************************)
\* C7: get_auth_handler returns a cloud handler (token as api_key, instance as crn) for
\* channel 'ibm_cloud', a generic handler (token as api_key, instance as crn) for 'generic'
\* and a quantum handler carrying the token as access token for every other channel.
C7_AuthHandler ==
    cpCall.op = "get_auth_handler" =>
        LET h == cpCall.auth
        IN  /\ h.cls = (CASE cp.channel = "ibm_cloud" -> "CloudAuth"
                          [] cp.channel = "generic" -> "GenericAuth"
                          [] OTHER -> "QuantumAuth")
            /\ h.cls \in {"CloudAuth", "GenericAuth"} =>
                  /\ h.api_key = Some(cp.token)
                  /\ h.crn = cp.instance
                  /\ h.access_token = None
            /\ h.cls = "QuantumAuth" =>
                  /\ h.access_token = Some(cp.token)
                  /\ h.api_key = None
                  /\ h.crn = None

\* C7 witness: a generic handler was returned for an instance that has a service instance.
C7_Witness ==
    /\ cpCall.op = "get_auth_handler"
    /\ cp.channel = "generic"
    /\ cp.instance # None
    /\ cpCall.auth.cls = "GenericAuth"

\* C8: get_runtime_api_base_url returns the configured url and calls no resolver when channel
\* is 'generic'; otherwise it returns the result of the one call
\* url_resolver(url, instance, private_endpoint), url_resolver being the caller's resolver if
\* one was given and the default runtime resolver otherwise.
C8_BaseUrl ==
    cpCall.op = "get_runtime_api_base_url" =>
        IF cp.channel = "generic"
        THEN /\ cpCall.resolver_calls = << >>
             /\ cpCall.base_url.kind = "url"
             /\ cpCall.base_url.url = cp.url
        ELSE /\ Len(cpCall.resolver_calls) = 1
             /\ cpCall.resolver_calls[1].resolver =
                    (IF cpResolverArg # None THEN cpResolverArg[1] ELSE "default_runtime_url_resolver")
             /\ cpCall.resolver_calls[1].url = cp.url
             /\ cpCall.resolver_calls[1].instance = cp.instance
             /\ cpCall.resolver_calls[1].private_endpoint = cp.private_endpoint
             /\ cpCall.base_url.kind = "resolved"
             /\ cpCall.base_url.resolved = cpCall.resolver_calls

\* C8 witness: the url of a generic channel was returned although a custom resolver was given.
C8_Witness ==
    /\ cpCall.op = "get_runtime_api_base_url"
    /\ cp.channel = "generic"
    /\ cpResolverArg # None
    /\ cp.url # None
    /\ cpCall.base_url.kind = "url"

(***************************************************************************)
(* Properties of options/transpilation_options.py, checked under           *)
(* SpecTranspilation                                                       *)
(***************************************************************************)
\* C9 (as claimed): every instance has approximation_degree None or within [0.0, 1.0], both
\* boundaries are accepted, and a value outside the range raises a validation error and is
\* not left on the instance.
C9_ApproxDegree ==
    /\ topts # None =>
          \/ topts[1].approximation_degree.t = "none"
          \/ /\ topts[1].approximation_degree.t = "float"
             /\ 0 <= topts[1].approximation_degree.n
             /\ topts[1].approximation_degree.n <= ApproxUpper
    /\ \A v \in ApproxInputs :
          (tCall.kwargs = ("approximation_degree" :> v) /\ v.t = "float" /\ (v.n < 0 \/ v.n > ApproxUpper))
              => tCall.error # "none"

\* C10 (as claimed): every instance has layout_method in {None, 'trivial', 'dense',
\* 'noise_adaptive', 'sabre'} and routing_method in {None, 'basic', 'lookahead', 'stochastic',
\* 'sabre', 'none'}; any other value raises a validation error, at construction or on
\* assignment, and a field name outside the five declared options is rejected.
C10_Methods ==
    /\ topts # None =>
          /\ \/ topts[1].layout_method.t = "none"
             \/ /\ topts[1].layout_method.t = "str"
                /\ topts[1].layout_method.s \in {"trivial", "dense", "noise_adaptive", "sabre"}
          /\ \/ topts[1].routing_method.t = "none"
             \/ /\ topts[1].routing_method.t = "str"
                /\ topts[1].routing_method.s \in {"basic", "lookahead", "stochastic", "sabre", "none"}
    /\ \A f \in DOMAIN tCall.kwargs :
          f \notin {"skip_transpilation", "initial_layout", "layout_method", "routing_method",
                    "approximation_degree"} => tCall.error # "none"
    /\ ("layout_method" \in DOMAIN tCall.kwargs /\ tCall.kwargs["layout_method"] = TStr("bogus"))
          => tCall.error # "none"
    /\ ("routing_method" \in DOMAIN tCall.kwargs /\ tCall.kwargs["routing_method"] = TStr("bogus"))
          => tCall.error # "none"

(***************************************************************************)
(* Properties of options/twirling_options.py, checked under SpecTwirling   *)
(***************************************************************************)
\* Unset, 'auto' or an integer >= 1
CountOrAuto(v) == v.t = "unset" \/ v = TStr("auto") \/ (v.t = "int" /\ v.n >= 1)

\* C11: every TwirlingOptions instance has num_randomizations and shots_per_randomization
\* each equal to Unset, 'auto' or an integer >= 1; an integer below 1 for either field is
\* rejected with a validation error, and 1 is accepted.
C11_TwirlingCounts ==
    /\ twopts # None =>
          /\ CountOrAuto(twopts[1].num_randomizations)
          /\ CountOrAuto(twopts[1].shots_per_randomization)
    /\ \A f \in {"num_randomizations", "shots_per_randomization"} :
          f \in DOMAIN twCall.kwargs =>
              /\ (twCall.kwargs[f].t = "int" /\ twCall.kwargs[f].n < 1) => twCall.error # "none"
              /\ twCall.kwargs[f] = TInt(1) => (twCall.error = "none" /\ twopts[1][f] = TInt(1))

\* C11 witness: shots_per_randomization = 0 was refused on an instance whose
\* num_randomizations is 1.
C11_Witness ==
    /\ twCall.op = "__setattr__"
    /\ twCall.kwargs = ("shots_per_randomization" :> TInt(0))
    /\ twCall.error # "none"
    /\ twopts[1].num_randomizations = TInt(1)

IsFlatNumbers(x) == x.t = "seq" /\ Len(x.v) >= 1 /\ x.v[1].t = "num"
IsNested(x) == x.t = "seq" /\ Len(x.v) >= 1 /\ x.v[1].t = "seq"

\* What the claim and its amendment share: a single circuit or observable is wrapped in a
\* one-element list, a sequence of them, a nested parameter_values and None pass unchanged.
RunWrapsSingles ==
    /\ estCall.args.circuits.t = "obj" => estCall.ret[1].circuits = PSeq(<<estCall.args.circuits>>)
    /\ estCall.args.circuits.t = "seq" => estCall.ret[1].circuits = estCall.args.circuits
    /\ estCall.args.observables.t = "obj"
          => estCall.ret[1].observables = PSeq(<<estCall.args.observables>>)
    /\ estCall.args.observables.t = "seq" => estCall.ret[1].observables = estCall.args.observables
    /\ estCall.args.parameter_values = None => estCall.ret[1].parameter_values = None
    /\ (estCall.args.parameter_values # None /\ IsNested(estCall.args.parameter_values[1]))
          => estCall.ret[1].parameter_values = estCall.args.parameter_values

\* C13 (as claimed): Estimator.run wraps a single circuit or observable in a one-element list,
\* and for every parameter_values given as a flat sequence of numbers of any length >= 1 the
\* base run receives a sequence containing that one sequence; a nested sequence and None are
\* passed through unchanged.
C13_RunNormalizes ==
    estCall.op = "run" =>
        /\ RunWrapsSingles
        /\ (estCall.args.parameter_values # None /\ IsFlatNumbers(estCall.args.parameter_values[1]))
              => estCall.ret[1].parameter_values = Some(PSeq(<<estCall.args.parameter_values[1]>>))

\* C13 (amended): as claimed, but only a flat sequence of at least two numbers is wrapped; a
\* flat sequence of exactly one number is passed through unchanged.
C13_RunNormalizesFromTwo ==
    estCall.op = "run" =>
        /\ RunWrapsSingles
        /\ (estCall.args.parameter_values # None /\ IsFlatNumbers(estCall.args.parameter_values[1]))
              => IF Len(estCall.args.parameter_values[1].v) >= 2
                 THEN estCall.ret[1].parameter_values
                          = Some(PSeq(<<estCall.args.parameter_values[1]>>))
                 ELSE estCall.ret[1].parameter_values = estCall.args.parameter_values

\* C13 witness: run was called with one circuit object and a flat parameter_values of one
\* number, which reached the base run unwrapped.
C13_Witness ==
    /\ estCall.op = "run"
    /\ estCall.args.circuits.t = "obj"
    /\ estCall.args.parameter_values # None
    /\ IsFlatNumbers(estCall.args.parameter_values[1])
    /\ Len(estCall.args.parameter_values[1].v) = 1
    /\ estCall.ret[1].parameter_values = estCall.args.parameter_values
    /\ estCall.ret[1].circuits.t = "seq"

\* C14: Estimator._run submits exactly one request to its session, with program id
\* 'estimator' and inputs holding the given circuits, observables, parameters and
\* parameter_values together with circuit_indices = [0 .. len(circuits)-1] and
\* observable_indices = [0 .. len(observables)-1], and returns the job handle session.run
\* returned without waiting for a result.
C14_RunSubmits ==
    estCall.op = "_run" =>
        /\ Len(estCall.requests) = 1
        /\ LET r == estCall.requests[1].request
           IN  /\ r.session = est[1].session
               /\ r.program_id = "estimator"
               /\ r.inputs["circuits"] = estCall.args.circuits
               /\ r.inputs["observables"] = estCall.args.observables
               /\ r.inputs["parameters"] = estCall.args.parameters[1]
               /\ r.inputs["parameter_values"] = estCall.args.parameter_values[1]
               /\ Len(r.inputs["circuit_indices"]) = Len(estCall.args.circuits.v)
               /\ \A i \in DOMAIN r.inputs["circuit_indices"] : r.inputs["circuit_indices"][i] = i - 1
               /\ Len(r.inputs["observable_indices"]) = Len(estCall.args.observables.v)
               /\ \A i \in DOMAIN r.inputs["observable_indices"] :
                      r.inputs["observable_indices"][i] = i - 1
        /\ estCall.ret[1].job = estCall.requests[1].returned
        /\ ~estCall.ret[1].waited_for_result

\* C14 witness: _run submitted two circuits with one observable to a session given to the
\* constructor.
C14_Witness ==
    /\ estCall.op = "_run"
    /\ Len(estCall.args.circuits.v) = 2
    /\ Len(estCall.args.observables.v) = 1
    /\ Len(estCall.requests) = 1
    /\ est[1].session.kind = "Session"

\* C15 (as claimed): the skip_transpilation constructor argument determines
\* options.transpilation.skip_transpilation of the new Estimator unless skip_transpilation is
\* also specified in the supplied options, in which case the value in options is used. An
\* Options instance counts as specifying it; a dictionary specifies it when it has the key
\* 'skip_transpilation' under 'transpilation'.
C15_SkipTranspilation ==
    estCall.op = "__init__" =>
        LET o == estCall.args.options
        IN  est[1].options.skip_transpilation =
                (CASE o.kind = "None" -> estCall.args.skip_transpilation
                   [] o.kind = "Options" -> o.skip_transpilation
                   [] OTHER -> IF "transpilation" \in DOMAIN o.d
                                  /\ "skip_transpilation" \in DOMAIN o.d["transpilation"]
                               THEN o.d["transpilation"]["skip_transpilation"]
                               ELSE estCall.args.skip_transpilation)

\* C16: when the session argument is a Session it becomes the Estimator's session and no
\* default session is requested; otherwise one default session is requested, with backend
\* equal to the session argument when it is given and to the deprecated options['backend']
\* entry only when the session argument is absent.
C16_SessionSelection ==
    estCall.op = "__init__" =>
        LET a == estCall.args
            reqs == estCall.default_session_requests
        IN  IF a.session.kind = "Session"
            THEN /\ reqs = << >>
                 /\ est[1].session.kind = "Session"
                 /\ est[1].session.id = a.session.id
            ELSE /\ Len(reqs) = 1
                 /\ reqs[1].service = a.service
                 /\ reqs[1].backend =
                        (IF a.session.kind # "None" THEN a.session
                         ELSE IF a.options.kind = "dict" /\ "backend" \in DOMAIN a.options.d
                              THEN a.options.d["backend"]
                              ELSE [kind |-> "None", id |-> ""])
                 /\ est[1].session.kind = "default"
                 /\ est[1].session.requested = reqs

\* C16 witness: a backend name was given as session while the options dictionary also had a
\* 'backend' entry, and the default session was requested for the session argument.
C16_Witness ==
    /\ estCall.op = "__init__"
    /\ estCall.args.session.kind = "str"
    /\ estCall.args.options.kind = "dict"
    /\ "backend" \in DOMAIN estCall.args.options.d
    /\ Len(estCall.default_session_requests) = 1
    /\ estCall.default_session_requests[1].backend = estCall.args.session

(***************************************************************************)
(* Properties of models/job_status.py, checked under SpecJobStatus         *)
(***************************************************************************)
\* What the claim and its amendment share: to_dict holds the three core keys with the
\* constructor's values plus exactly the extra fields, from_dict(s.to_dict()).to_dict() equals
\* s.to_dict(), and a name that is neither an extra field nor an attribute raises
\* AttributeError.
JobStatusDictShape ==
    /\ jsCall.op = "__init__" =>
          /\ DOMAIN jsCall.ret[1] = CoreKeys \cup DOMAIN jsCall.args.kwargs
          /\ jsCall.ret[1]["job_id"] = jsCall.args.job_id
          /\ jsCall.ret[1]["status"] = jsCall.args.status
          /\ jsCall.ret[1]["status_msg"] = jsCall.args.status_msg
          /\ \A k \in DOMAIN jsCall.args.kwargs : jsCall.ret[1][k] = jsCall.args.kwargs[k]
    /\ jsCall.op = "from_dict" => jsCall.ret[1] = jsCall.args.data
    /\ ( /\ jsCall.op = "getattr"
         /\ jsCall.args.name \notin DOMAIN js[1]._data
         /\ jsCall.args.name \notin InstanceAttrs \cup ClassAttrs )
          => jsCall.ret[1] = AttrError

\* C17 (as claimed): JobStatus.from_dict(s.to_dict()).to_dict() equals s.to_dict(), to_dict
\* contains the three core keys plus exactly the extra fields, each extra field is readable
\* as an attribute, and an undefined attribute raises AttributeError.
C17_JobStatusRoundTrip ==
    /\ JobStatusDictShape
    /\ (jsCall.op = "getattr" /\ jsCall.args.name \in DOMAIN js[1]._data)
          => jsCall.ret[1] = AttrStr(js[1]._data[jsCall.args.name])

\* C17 (amended): as claimed, but an extra field is readable as an attribute only when its
\* name is not already an attribute of the object or of the class.
C17_JobStatusRoundTripUnshadowed ==
    /\ JobStatusDictShape
    /\ ( /\ jsCall.op = "getattr"
         /\ jsCall.args.name \in DOMAIN js[1]._data
         /\ jsCall.args.name \notin InstanceAttrs \cup ClassAttrs )
          => jsCall.ret[1] = AttrStr(js[1]._data[jsCall.args.name])

\* C17 witness: on an object holding the extra fields 'reason' and 'to_dict', the attribute
\* 'reason' was read and gave the value of the extra field.
C17_Witness ==
    /\ jsCall.op = "getattr"
    /\ jsCall.args.name = "reason"
    /\ DOMAIN js[1]._data = ExtraNames
    /\ jsCall.ret[1] = AttrStr(js[1]._data["reason"])
    /\ DOMAIN to_dict(js[1]) = CoreKeys \cup ExtraNames

(***************************************************************************)
(* Properties of utils/backend_decoder.py, checked under SpecConfiguration,*)
(* SpecFilter and SpecDefaults                                             *)
(***************************************************************************)
\* A value in one of the two formats _to_complex accepts, and the complex number it stands for.
IsComplexFormat(value) == (value.t = "list" /\ Len(value.v) = 2) \/ value.t = "complex"
AsComplex(value) == IF value.t = "complex" THEN value ELSE PyComplex(value.v[1], value.v[2])

\* Decoding the dictionary d fails: online_date is missing or is not an ISO date, or an entry
\* of u_channel_lo has no scale or a malformed one.
DecodingFails(d) ==
    \/ "online_date" \notin DOMAIN d
    \/ d["online_date"].s # IsoDate
    \/ /\ "u_channel_lo" \in DOMAIN d
       /\ \E i \in DOMAIN d["u_channel_lo"] : \E j \in DOMAIN d["u_channel_lo"][i] :
              \/ d["u_channel_lo"][i][j].scale = None
              \/ ~IsComplexFormat(d["u_channel_lo"][i][j].scale[1])

\* Filtering the dictionary d fails: the gates are filtered and one of them is not a dictionary.
FilteringFails(d, flag) ==
    /\ flag = Some(FALSE)
    /\ "gates" \in DOMAIN d
    /\ \E i \in DOMAIN d["gates"] : ~d["gates"][i].is_dict

\* C18: configuration_from_server_data never propagates an exception: it returns None when
\* raw_config is not a dictionary and when decoding, filtering or model construction fails;
\* otherwise it returns a pulse configuration when the data parses as one and a qasm
\* configuration only when pulse parsing failed with a KeyError or TypeError.
C18_NeverRaises ==
    cfgCall.op = "configuration_from_server_data" =>
        LET a == cfgCall.args
            r == cfgCall.out[1]
            fails == \/ ~a.raw_config.is_dict
                     \/ DecodingFails(a.raw_config.d)
                     \/ FilteringFails(a.raw_config.d, a.use_fractional_gates)
                     \/ a.pulse \notin {"ok", "KeyError", "TypeError"}
                     \/ (a.pulse # "ok" /\ a.qasm # "ok")
        IN  /\ r.raised = "none"
            /\ fails => r.ret = None
            /\ (~fails /\ a.pulse = "ok") => r.ret[1].cls = "PulseBackendConfiguration"
            /\ (~fails /\ a.pulse # "ok") => r.ret[1].cls = "QasmBackendConfiguration"
            /\ (r.ret # None /\ r.ret[1].cls = "QasmBackendConfiguration")
                  => a.pulse \in {"KeyError", "TypeError"}

\* C18 witness: a dictionary with a valid online_date and a u_channel_lo scale given as a
\* plain real number came back as None although both model classes would have parsed it.
C18_Witness ==
    /\ cfgCall.op = "configuration_from_server_data"
    /\ cfgCall.args.raw_config.is_dict
    /\ "online_date" \in DOMAIN cfgCall.args.raw_config.d
    /\ cfgCall.args.raw_config.d["online_date"].s = IsoDate
    /\ "u_channel_lo" \in DOMAIN cfgCall.args.raw_config.d
    /\ cfgCall.args.raw_config.d["u_channel_lo"] = <<<<[scale |-> Some(PyReal(1))]>>>>
    /\ cfgCall.args.pulse = "ok"
    /\ cfgCall.out[1].raised = "none"
    /\ cfgCall.out[1].ret = None

\* The items of seq at the indices idx, in their order in seq.
KeptAt(seq, idx) ==
    [i \in 1..Cardinality(idx) |->
        seq[CHOOSE j \in idx : Cardinality({k \in idx : k < j}) = i - 1]]

\* seq without the strings of removed; gates without the gates named in removed.
KeptStrings(seq, removed) == KeptAt(seq, {i \in DOMAIN seq : seq[i] \notin removed})
KeptGates(gates, removed) ==
    KeptAt(gates, {i \in DOMAIN gates : gates[i].name = None \/ gates[i].name[1] \notin removed})

\* What filtering with the flag makes of the list under key.
Filtered(key, list, flag) ==
    CASE flag = Some(FALSE) /\ key \in {"basis_gates", "supported_instructions"}
            -> KeptStrings(list, {"rzz", "rx"})
      [] flag = Some(FALSE) /\ key = "gates" -> KeptGates(list, {"rzz", "rx"})
      [] flag = Some(TRUE) /\ key = "supported_instructions"
            -> KeptStrings(list, {"if_else", "while_loop", "for_loop", "switch_case"})
      [] flag = Some(TRUE) /\ key = "supported_features" -> KeptStrings(list, {"qasm3"})
      [] OTHER -> list

\* C19: filter_raw_configuration removes exactly 'rzz' and 'rx' from basis_gates, gates (by
\* name) and supported_instructions when the flag is False, exactly the control-flow
\* instructions from supported_instructions and 'qasm3' from supported_features when it is
\* True, and nothing when it is None; the kept entries keep their order, absent keys are not
\* added, no other key changes, and a second application with the same flag changes nothing.
C19_FilterExact ==
    filterCall.op = "filter_raw_configuration" =>
        /\ DOMAIN rawConfig = DOMAIN filterCall.before
        /\ \A key \in DOMAIN rawConfig :
               rawConfig[key] = Filtered(key, filterCall.before[key], filterCall.flag)
        /\ filterCall.flag = None => rawConfig = filterCall.before
        /\ filterCall.applied = 2 => rawConfig = filterCall.before

\* C19 witness: supported_instructions held a control-flow entry followed by a fractional one; two
\* applications with use_fractional_gates=False removed the fractional one only.
C19_Witness ==
    /\ filterCall.op = "filter_raw_configuration"
    /\ filterCall.flag = Some(FALSE)
    /\ filterCall.applied = 2
    /\ "supported_instructions" \in DOMAIN filterCall.input
    /\ filterCall.input["supported_instructions"] = <<"if_else", "rx">>
    /\ rawConfig["supported_instructions"] = <<"if_else">>
    /\ "gates" \notin DOMAIN rawConfig

\* Every value of the defaults that has to become a complex number is in an accepted format:
\* the samples of the pulse library items and, in the commands with a 'sequence', the 'val'
\* and the parameters' 'amp' of the instructions that have one.
DefaultsWellFormed(defaults) ==
    /\ \A i \in DOMAIN defaults.pulse_library : \A j \in DOMAIN defaults.pulse_library[i].samples :
           IsComplexFormat(defaults.pulse_library[i].samples[j])
    /\ \A i \in DOMAIN defaults.cmd_def :
           defaults.cmd_def[i].sequence # None =>
               \A j \in DOMAIN defaults.cmd_def[i].sequence[1] :
                   LET instr == defaults.cmd_def[i].sequence[1][j]
                   IN  /\ instr.val # None => IsComplexFormat(instr.val[1])
                       /\ (instr.parameters # None /\ instr.parameters[1].amp # None)
                             => IsComplexFormat(instr.parameters[1].amp[1])

\* The decoded defaults hold the complex number of every sample, 'val' and 'amp' of the given
\* ones, and the commands without a 'sequence' as they were given.
DefaultsConverted(given, decoded) ==
    /\ DOMAIN decoded.pulse_library = DOMAIN given.pulse_library
    /\ \A i \in DOMAIN given.pulse_library :
           /\ DOMAIN decoded.pulse_library[i].samples = DOMAIN given.pulse_library[i].samples
           /\ \A j \in DOMAIN given.pulse_library[i].samples :
                  decoded.pulse_library[i].samples[j] = AsComplex(given.pulse_library[i].samples[j])
    /\ DOMAIN decoded.cmd_def = DOMAIN given.cmd_def
    /\ \A i \in DOMAIN given.cmd_def :
           IF given.cmd_def[i].sequence = None THEN decoded.cmd_def[i] = given.cmd_def[i]
           ELSE /\ decoded.cmd_def[i].sequence # None
                /\ DOMAIN decoded.cmd_def[i].sequence[1] = DOMAIN given.cmd_def[i].sequence[1]
                /\ \A j \in DOMAIN given.cmd_def[i].sequence[1] :
                       LET old == given.cmd_def[i].sequence[1][j]
                           new == decoded.cmd_def[i].sequence[1][j]
                       IN  /\ new.val = IF old.val = None THEN None ELSE Some(AsComplex(old.val[1]))
                           /\ new.parameters =
                                 IF old.parameters = None \/ old.parameters[1].amp = None
                                 THEN old.parameters
                                 ELSE Some([amp |-> Some(AsComplex(old.parameters[1].amp[1]))])

\* C20: _to_complex returns complex(a, b) for a list of exactly two elements [a, b], returns a
\* complex input unchanged (so it is idempotent), and raises TypeError for every other
\* input; defaults_from_server_data therefore converts every pulse_library sample, every
\* 'val' and every parameters 'amp' of a cmd_def sequence instruction, and skips the cmd_def
\* entries without a 'sequence'.
C20_ToComplex ==
    /\ dfCall.op = "_to_complex" =>
          LET value == dfCall.args.value
              r == dfCall.out[1]
          IN  /\ (value.t = "list" /\ Len(value.v) = 2)
                    => r = Returned(PyComplex(value.v[1], value.v[2]))
              /\ value.t = "complex" => r = Returned(value)
              /\ r.raised = "none" => dfCall.twice[1] = r
              /\ ~((value.t = "list" /\ Len(value.v) = 2) \/ value.t = "complex")
                    => r = Raised("TypeError")
    /\ dfCall.op = "defaults_from_server_data" =>
          LET given == dfCall.args.defaults
              r == dfCall.out[1]
          IN  IF DefaultsWellFormed(given)
              THEN /\ r.raised = "none"
                   /\ DefaultsConverted(given, r.defaults)
                   /\ r.ret = Some([cls |-> "PulseDefaults", data |-> r.defaults])
              ELSE r.raised = "TypeError" /\ r.ret = None

\* C20 witness: defaults with two samples, a command without 'sequence' and a command whose
\* instruction has a 'val' and an 'amp' given as two-element lists were decoded.
C20_Witness ==
    /\ dfCall.op = "defaults_from_server_data"
    /\ dfCall.out[1].raised = "none"
    /\ Len(dfCall.args.defaults.pulse_library[1].samples) = 2
    /\ dfCall.args.defaults.pulse_library[1].samples[1].t = "list"
    /\ Len(dfCall.args.defaults.cmd_def) = 2
    /\ dfCall.args.defaults.cmd_def[1].sequence = None
    /\ dfCall.args.defaults.cmd_def[2].sequence
           = Some(<<[val |-> Some(PyList(<<0, 1>>)),
                     parameters |-> Some([amp |-> Some(PyList(<<0, 1>>))])]>>)
    /\ dfCall.out[1].defaults.cmd_def[2].sequence
           = Some(<<[val |-> Some(PyComplex(0, 1)),
                     parameters |-> Some([amp |-> Some(PyComplex(0, 1))])]>>)

(***************************************************************************)
(* Frame properties of save_config and of the Estimator constructor        *)
(***************************************************************************)
\* C28: save_config for a name other than 'default_channel' with default_channel None or ''
\* leaves the stored default_channel value as it was, present or absent, whether the call
\* returns or raises, and a save_config that returns changes no key other than `name` and
\* default_channel. Checked under SpecStorage.
C28_DefaultChannelFrame ==
    sCall.op = "save_config" =>
        /\ (sCall.name[1] # DEFAULT_CHANNEL_KEY /\ ~Truthy(sCall.default_channel))
              => Get(DataNow, DEFAULT_CHANNEL_KEY) = Get(DataBefore, DEFAULT_CHANNEL_KEY)
        /\ sCall.error = "none"
              => \A k \in (DOMAIN DataBefore \cup DOMAIN DataNow) \ {sCall.name[1], DEFAULT_CHANNEL_KEY} :
                     Get(DataNow, k) = Get(DataBefore, k)

\* C28 witness: a file holding a default_channel and another account was rewritten by a
\* save_config with default_channel='' that replaced the config stored under its name.
C28_Witness ==
    /\ sCall.op = "save_config"
    /\ sCall.error = "none"
    /\ sCall.name[1] = AccountNames[1]
    /\ sCall.default_channel = Some(PyStr(""))
    /\ DEFAULT_CHANNEL_KEY \in DOMAIN DataBefore
    /\ DataBefore[DEFAULT_CHANNEL_KEY] = PyStr("ibm_cloud")
    /\ AccountNames[2] \in DOMAIN DataBefore
    /\ AccountNames[1] \in DOMAIN DataBefore
    /\ DataNow[AccountNames[1]] # DataBefore[AccountNames[1]]
    /\ DataNow[DEFAULT_CHANNEL_KEY] = PyStr("ibm_cloud")

\* C29 (as claimed): constructing an Estimator leaves the options object the caller supplied
\* as it was: an Options instance and a dictionary hold the same keys and values after the
\* constructor returned as before. Checked under SpecEstimator.
C29_CallerOptionsUnchanged ==
    estCall.op = "__init__" => estCall.caller_options = Some(estCall.args.options)

C22_LayerError ==
    noiseCall.op = "LayerError" =>
        LET a == noiseCall.args
            o == noiseCall.out[1]
        IN  IF a.circuit.num_qubits = Len(a.qubits)
               /\ Len(a.qubits) = a.error.generators.num_qubits
            THEN /\ o.raised = "none"
                 /\ o.ret[1].circuit = a.circuit
                 /\ o.ret[1].qubits = a.qubits
                 /\ o.ret[1].error = a.error
                 /\ LayerError_num_qubits(o.ret[1]) = Len(a.qubits)
                 /\ LayerError_num_qubits(o.ret[1]) = a.circuit.num_qubits
                 /\ LayerError_num_qubits(o.ret[1]) = a.error.generators.num_qubits
            ELSE o = Raised("ValueError")

\* C22 witness: a LayerError was built from a two-qubit circuit, the qubits [9, 8] and a
\* two-qubit error with a generator.
C22_Witness ==
    /\ noiseCall.op = "LayerError"
    /\ noiseCall.out[1].raised = "none"
    /\ noiseCall.args.qubits = <<9, 8>>
    /\ Len(noiseCall.args.error.generators.paulis) >= 1

\* The indices of the generators that act with X, Y or Z on exactly k qubits.
ActsOnExactly(generators, k) ==
    {i \in DOMAIN generators.paulis :
        Cardinality({q \in DOMAIN generators.paulis[i] : generators.paulis[i][q] # "I"}) = k}

\* C23: restrict_num_bodies(k) raises ValueError for k < 0 and otherwise returns an error
\* holding exactly the generator terms that act non-trivially on exactly k qubits, in their
\* original order and each with the rate it had; the original error is not modified.
C23_RestrictNumBodies ==
    noiseCall.op = "restrict_num_bodies" =>
        LET k == noiseCall.args.num_qubits
            self == noiseCall.self[1]
            o == noiseCall.out[1]
        IN  /\ ple = noiseCall.self
            /\ IF k < 0 THEN o = Raised("ValueError")
               ELSE /\ o.raised = "none"
                    /\ o.ret[1].generators.num_qubits = self.generators.num_qubits
                    /\ o.ret[1].generators.paulis
                           = KeptAt(self.generators.paulis, ActsOnExactly(self.generators, k))
                    /\ o.ret[1].rates.rows[1]
                           = KeptAt(self.rates.rows[1], ActsOnExactly(self.generators, k))

\* C23 witness: from the generators YZ, IZ with the rates 1, 2 the terms on one qubit were
\* taken, giving IZ with the rate 2.
C23_Witness ==
    /\ noiseCall.op = "restrict_num_bodies"
    /\ noiseCall.args.num_qubits = 1
    /\ noiseCall.self[1].generators.paulis = <<<<"Y", "Z">>, <<"I", "Z">>>>
    /\ noiseCall.out[1].raised = "none"
    /\ noiseCall.out[1].ret[1].generators.paulis = <<<<"I", "Z">>>>
    /\ noiseCall.out[1].ret[1].rates.rows[1] = <<2>>

(***************************************************************************)
(* Properties of draw_execution_spans, checked under SpecDraw              *)
(***************************************************************************)
\* The positions in the figure of the traces of the collection at position c.
TracesOf(c) == {t \in DOMAIN fig : fig[t].color = c}

\* The number of spans of all the collections together.
RECURSIVE SumLens(_)
SumLens(spans) == IF spans = << >> THEN 0 ELSE Len(spans[1]) + SumLens(Tail(spans))

\* The sizes of the spans shown by the traces at the positions T, added up.
RECURSIVE SumOver(_)
SumOver(T) ==
    IF T = {} THEN 0
    ELSE LET t == CHOOSE t \in T : TRUE IN fig[t].text.span.size + SumOver(T \ {t})

\* C24: draw_execution_spans adds exactly one trace per span of every non-empty collection;
\* within a collection the traces follow the spans' sorted order, the y value of each trace
\* is the sum of the sizes of the spans up to and including it (so it never decreases and
\* the last one is the collection's total size, or all of the work with normalize_y), and
\* the index in the hover text is the span's position in the original collection.
C24_OneTracePerSpan ==
    drawCall.op = "draw_execution_spans" =>
        /\ Len(fig) = SumLens(drawCall.spans)
        /\ \A c \in DOMAIN drawCall.spans :
             LET coll == drawCall.spans[c]
                 T == TracesOf(c)
             IN  /\ Cardinality(T) = Len(coll)
                 /\ \A t \in T : \A u \in DOMAIN fig : (u > t /\ u \notin T) => fig[u].color > c
                 \* one trace per original position, showing the span at that position
                 /\ \A i \in DOMAIN coll : Cardinality({t \in T : fig[t].text.idx = i - 1}) = 1
                 /\ \A t \in T : fig[t].text.span = coll[fig[t].text.idx + 1]
                 /\ \A t \in T : fig[t].x[2] - fig[t].x[1]
                                    = fig[t].text.span.stop - fig[t].text.span.start
                 \* sorted order; spans that compare equal keep their original order
                 /\ \A t, u \in T : t < u =>
                        /\ ~SpanLt(fig[u].text.span, fig[t].text.span)
                        /\ ~SpanLt(fig[t].text.span, fig[u].text.span)
                              => fig[t].text.idx < fig[u].text.idx
                 \* cumulative sizes
                 /\ \A t \in T :
                        fig[t].y.num = SumOver({u \in T : u <= t})
                 /\ \A t, u \in T : t < u => fig[t].y.num <= fig[u].y.num
                 /\ \A t \in T : (\A u \in T : u <= t) =>
                        /\ fig[t].y.num = SumOver(T)
                        /\ drawCall.normalize_y => fig[t].y.num = fig[t].y.den
                 /\ \A t \in T : ~drawCall.normalize_y => fig[t].y.den = 1

\* C24 witness: a collection whose spans were given out of order was drawn next to a second
\* collection, with normalize_y, and the last trace of the first collection shows the span
\* given first.
C24_Witness ==
    /\ drawCall.op = "draw_execution_spans"
    /\ drawCall.normalize_y
    /\ Len(drawCall.spans) = 2
    /\ Len(drawCall.spans[1]) = 2 /\ Len(drawCall.spans[2]) = 2
    /\ SpanLt(drawCall.spans[1][2], drawCall.spans[1][1])
    /\ fig[2].text.idx = 0
    /\ fig[2].y.num = fig[2].y.den
    /\ Len(fig) = 4

(***************************************************************************)
(* Properties of Neat.simulate, checked under SpecNeat                     *)
(***************************************************************************)
\* Some circuit of the PUBs holds an rz gate whose angle is none of 0, pi/2, pi, 3*pi/2.
HasNonCliffordRz(pubs) ==
    \E p \in DOMAIN pubs : \E i \in DOMAIN pubs[p].circuit :
        /\ pubs[p].circuit[i].name = "rz"
        /\ pubs[p].circuit[i].params[1] \notin {0, 2, 4, 6}

\* The noise model a simulation has to use.
ExpectedNoise(with_noise) == IF with_noise THEN assigned ELSE None

\* C25: simulate with cliffordize=False raises ValueError, before any simulation is run,
\* whenever some PUB circuit holds an rz gate whose angle is none of 0, pi/2, pi, 3*pi/2;
\* with cliffordize=True it makes no Clifford check and simulates the PUBs that to_clifford
\* returns; in both cases the simulation uses the noise model assigned last when with_noise
\* is True and none when it is False.
C25_SimulateValidation ==
    neatCall.op = "simulate" =>
        LET a == neatCall.args
            o == neatCall.out[1]
        IN  IF ~a.cliffordize /\ HasNonCliffordRz(a.pubs)
            THEN o = Raised("ValueError") /\ neatCall.run = None
            ELSE /\ o.raised = "none"
                 /\ neatCall.run # None
                 /\ neatCall.run[1].pubs
                        = IF a.cliffordize THEN to_clifford(a.pubs).ret[1] ELSE a.pubs
                 /\ neatCall.run[1].backend_options.noise_model = ExpectedNoise(a.with_noise)

\* C25 witness: after the noise model was set to nm2, PUBs with an rz(pi/4) gate were
\* simulated with cliffordize=True and with noise.
C25_Witness ==
    /\ neatCall.op = "simulate"
    /\ assigned = Some("nm2")
    /\ neatCall.args.cliffordize /\ neatCall.args.with_noise
    /\ HasNonCliffordRz(neatCall.args.pubs)
    /\ neatCall.run # None
    /\ neatCall.run[1].backend_options.noise_model = Some("nm2")
    /\ ~HasNonCliffordRz(neatCall.run[1].pubs)

(***************************************************************************)
(* Properties of properties_from_server_data, checked under SpecProperties *)
(***************************************************************************)
\* Every date of the properties: last_update_date and the dates of the qubit entries, of
\* the gate parameters and of the general entries.
AllDates(properties) ==
    {properties.last_update_date}
        \cup UNION {{properties.qubits[i][j].date : j \in DOMAIN properties.qubits[i]} :
                       i \in DOMAIN properties.qubits}
        \cup UNION {{properties.gates[i].parameters[j].date :
                        j \in DOMAIN properties.gates[i].parameters} :
                       i \in DOMAIN properties.gates}
        \cup {properties.general[i].date : i \in DOMAIN properties.general}

\* C26: after properties_from_server_data no date of the properties is left as a string:
\* last_update_date and the dates of the qubit entries, of the gate parameters and of the
\* general entries are each decoded whenever they arrive as ISO strings, whatever the type
\* of the other dates.
C26_NoStringDateLeft ==
    (/\ propCall.op = "properties_from_server_data"
     /\ \A d \in AllDates(propCall.args[1]) : d.s = IsoDate)
        => /\ propCall.out[1].raised = "none"
           /\ \A d \in AllDates(propCall.out[1].ret[1]) : d.t = "datetime"

(***************************************************************************)
(* Properties of concurrent save_config calls, checked under               *)
(* SpecConcurrentSave                                                      *)
(***************************************************************************)
\* C27: when two save_config calls for two different account names run concurrently on
\* the same file, both accounts are in the file once both calls have returned, and a
\* read_config running in between never finds the file emptied or partly written.
C27_BothSavedAndNoTornRead ==
    /\ (\A i \in Savers : saver[i].pc = "done" /\ saver[i].error = "none")
          => /\ disk.whole
             /\ \A i \in Savers : Get(json_load(disk.text), AccountNames[i]) = saver[i].config
    /\ observed # "JSONDecodeError"

====
